---- MODULE Spec2Model ----
(***************************************************************************)
(* A model of the Riddle OpenClaw plugin                                   *)
(* (packages/openclaw-riddledc/src/index.ts): the domain guard, the job    *)
(* submitter and its classification of the POST response, the poller, the  *)
(* artifact materializer and the safety spooler.                           *)
(*                                                                         *)
(* Strings that the code parses (URLs, base64 text, file names) are        *)
(* sequences of tokens, so that parsing, prefix stripping, decoding and    *)
(* path normalisation are computed and not assumed.                        *)
(***************************************************************************)
EXTENDS Integers, Sequences, FiniteSets, TLC

(***************************************************************************)
(* JavaScript values, as far as the code looks at them: a type tag and a   *)
(* number (the length of a string or array, the value of a number or       *)
(* boolean).                                                               *)
(***************************************************************************)
JsVal(t, n) == [t |-> t, n |-> n]
Absent == JsVal("absent", 0)
JsStr == JsVal("string", 5)
JsArr == JsVal("array", 2)

\* if (v) ... : undefined, null, false, 0 and "" are falsy, every array and
\* object is truthy.
Truthy(v) ==
  CASE v.t = "absent" -> FALSE
    [] v.t = "null" -> FALSE
    [] v.t = "string" -> v.n > 0
    [] v.t = "number" -> v.n # 0
    [] v.t = "boolean" -> v.n = 1
    [] OTHER -> TRUE

NoMode == "undefined"

DetectModeSkipUrls(payload) ==
  IF Truthy(payload.url) THEN "url"
  ELSE IF Truthy(payload.steps) THEN "steps"
  ELSE IF Truthy(payload.urls) THEN "urls"
  ELSE IF Truthy(payload.script) THEN "script"
  ELSE NoMode

detectMode(payload) ==
  IF Truthy(payload.url) THEN "url"
  ELSE IF Truthy(payload.urls) THEN "urls"
  ELSE IF Truthy(payload.steps) THEN "steps"
  ELSE IF Truthy(payload.script) THEN "script"
  ELSE NoMode


(***************************************************************************)
(* URLs.  A URL string is a sequence of tokens: the scheme with its colon, *)
(* "//", and then host names, ports, path segments and the delimiters "/", *)
(* "@", ":", "?", "#".  ParseUrl is the part of the WHATWG parser used by   *)
(* new URL(...) and by fetch that finds the scheme and the host: the       *)
(* authority runs from after "//" to the first "/", "?" or "#", and the    *)
(* host is what follows its last "@".                                      *)
(***************************************************************************)
ApiHost == "api.riddledc.com"

AuthorityEnders == {"/", "?", "#"}

AuthorityEnd(u) ==
  IF \E i \in 3..Len(u) : u[i] \in AuthorityEnders
  THEN CHOOSE i \in 3..Len(u) :
         /\ u[i] \in AuthorityEnders
         /\ \A j \in 3..(i - 1) : u[j] \notin AuthorityEnders
  ELSE Len(u) + 1

HostStart(u) ==
  LET e == AuthorityEnd(u)
      ats == {i \in 3..(e - 1) : u[i] = "@"}
  IN IF ats = {} THEN 3 ELSE (CHOOSE i \in ats : \A j \in ats : j <= i) + 1

InvalidUrl == [ok |-> FALSE, protocol |-> "", hostname |-> "", credentials |-> FALSE]

ParseUrl(u) ==
  IF Len(u) < 3 \/ u[1] \notin {"https:", "http:"} \/ u[2] # "//"
  THEN InvalidUrl
  ELSE LET e == AuthorityEnd(u)
           h == HostStart(u)
       IN IF h >= e \/ u[h] \in {"//", "/", "@", ":", "?", "#"}
          THEN InvalidUrl
          ELSE [ok |-> TRUE, protocol |-> u[1], hostname |-> u[h],
                credentials |-> h > 3]

\* A guard that checks the scheme only.
AllowedBaseUrlSchemeOnly(baseUrl) ==
  LET url == ParseUrl(baseUrl)
  IN url.ok /\ url.protocol = "https:"

\* assertAllowedBaseUrl returns normally (TRUE) or throws (FALSE); new URL
\* throws on a string that is no URL.
assertAllowedBaseUrl(baseUrl) ==
  LET url == ParseUrl(baseUrl)
  IN /\ url.ok
     /\ url.protocol = "https:"
     /\ url.hostname = ApiHost

\* baseUrl.replace(/\/$/, "")
StripTrailingSlash(u) ==
  IF Len(u) > 0 /\ u[Len(u)] = "/" THEN SubSeq(u, 1, Len(u) - 1) ELSE u

\* `${baseUrl.replace(/\/$/, "")}${path}`
Endpoint(baseUrl, path) == StripTrailingSlash(baseUrl) \o path

(***************************************************************************)
(* File paths are sequences of segments.  path.join concatenates and       *)
(* normalises: "." is dropped and ".." removes the segment before it.      *)
(***************************************************************************)
RECURSIVE Normalize(_, _)
Normalize(todo, acc) ==
  IF todo = <<>> THEN acc
  ELSE LET s == Head(todo)
       IN IF s = "." \/ s = ""
          THEN Normalize(Tail(todo), acc)
          ELSE IF s = ".."
          THEN Normalize(Tail(todo),
                         IF acc = <<>> THEN acc ELSE SubSeq(acc, 1, Len(acc) - 1))
          ELSE Normalize(Tail(todo), Append(acc, s))

\* A file name given as tokens, split at "/" into segments; tokens that are
\* not separated by "/" are one segment.
RECURSIVE Segments(_, _, _)
Segments(toks, cur, acc) ==
  IF toks = <<>> THEN Append(acc, cur)
  ELSE IF Head(toks) = "/"
  THEN Segments(Tail(toks), "", Append(acc, cur))
  ELSE Segments(Tail(toks), cur \o Head(toks), acc)

\* join(dir, filename): dir is already normalised, filename is a template
\* string given as tokens.
join(dir, filename) == Normalize(dir \o Segments(filename, "", <<>>), <<>>)


(***************************************************************************)
(* Text that the code decodes is a sequence of one-character strings.      *)
(* Buffer.from(s, "base64") keeps the characters of the base64 alphabets   *)
(* (standard and URL-safe), skips every other character, and yields        *)
(* floor(6n/8) bytes from n such characters.                               *)
(***************************************************************************)
B64Alphabet ==
  << "A", "B", "C", "D", "E", "F", "G", "H", "I", "J", "K", "L", "M",
     "N", "O", "P", "Q", "R", "S", "T", "U", "V", "W", "X", "Y", "Z",
     "a", "b", "c", "d", "e", "f", "g", "h", "i", "j", "k", "l", "m",
     "n", "o", "p", "q", "r", "s", "t", "u", "v", "w", "x", "y", "z",
     "0", "1", "2", "3", "4", "5", "6", "7", "8", "9", "+", "/" >>

IsB64Char(c) == c \in {"-", "_"} \/ \E i \in 1..64 : B64Alphabet[i] = c

Sextet(c) ==
  IF c = "-" THEN 62
  ELSE IF c = "_" THEN 63
  ELSE (CHOOSE i \in 1..64 : B64Alphabet[i] = c) - 1

\* Buffer.from(text, "base64")
Base64Decode(text) ==
  LET s == SelectSeq(text, IsB64Char)
      n == (Len(s) * 6) \div 8
      v(i) == Sextet(s[i])
      byte(k) ==
        LET bit == 8 * (k - 1)
            q == (bit \div 6) + 1
            r == bit % 6
        IN IF r = 0 THEN v(q) * 4 + (v(q + 1) \div 16)
           ELSE IF r = 2 THEN (v(q) % 16) * 16 + (v(q + 1) \div 4)
           ELSE (v(q) % 4) * 64 + v(q + 1)
  IN [k \in 1..n |-> byte(k)]

\* Buffer.from(bytes).toString("base64")
Base64Encode(bytes) ==
  LET n == Len(bytes)
      b(i) == IF i <= n THEN bytes[i] ELSE 0
      groups == (n + 2) \div 3
      char(j) ==
        LET g == (j - 1) \div 4
            p == (j - 1) % 4
            b1 == b(3 * g + 1)
            b2 == b(3 * g + 2)
            b3 == b(3 * g + 3)
            have == n - 3 * g
        IN IF p = 0 THEN B64Alphabet[(b1 \div 4) + 1]
           ELSE IF p = 1 THEN B64Alphabet[((b1 % 4) * 16 + (b2 \div 16)) + 1]
           ELSE IF p = 2
           THEN IF have < 2 THEN "="
                ELSE B64Alphabet[((b2 % 16) * 4 + (b3 \div 64)) + 1]
           ELSE IF have < 3 THEN "=" ELSE B64Alphabet[(b3 % 64) + 1]
  IN [j \in 1..(4 * groups) |-> char(j)]

IsWordChar(c) == c = "_" \/ (IsB64Char(c) /\ c \notin {"+", "/", "-"})

DataImagePrefix == << "d", "a", "t", "a", ":", "i", "m", "a", "g", "e", "/" >>

Base64Marker == << ";", "b", "a", "s", "e", "6", "4", "," >>

HasPrefixAt(s, at, pre) ==
  /\ at + Len(pre) - 1 <= Len(s)
  /\ \A i \in 1..Len(pre) : s[at + i - 1] = pre[i]

\* The length of the run of \w characters of s that starts at position at.
WordRun(s, at) ==
  LET ends == {k \in 0..(Len(s) - at + 1) :
                 /\ \A i \in at..(at + k - 1) : IsWordChar(s[i])
                 /\ (at + k > Len(s) \/ ~IsWordChar(s[at + k]))}
  IN CHOOSE k \in ends : TRUE

\* s.replace(/^data:image\/\w+;base64,/, "")
StripDataUrlPrefix(s) ==
  IF ~HasPrefixAt(s, 1, DataImagePrefix) THEN s
  ELSE LET at == Len(DataImagePrefix) + 1
           k == WordRun(s, at)
       IN IF k >= 1 /\ HasPrefixAt(s, at + k, Base64Marker)
          THEN SubSeq(s, at + k + Len(Base64Marker), Len(s))
          ELSE s

PngDataUrlPrefix == DataImagePrefix \o << "p", "n", "g" >> \o Base64Marker


(***************************************************************************)
(* Values of the artifact fields of a RunResult.  Every value carries a    *)
(* tag t:                                                                  *)
(*   "absent"  the field is undefined        "null"  the field is null     *)
(*   "string"  an image given as text (base64 or a data URL)               *)
(*   "object"  an image object { name, data, size, url }                   *)
(*   "array"   a list of images                                            *)
(*   "text"    a console log, HAR or result: its identity and the size of  *)
(*             its serialised form in UTF-16 units and in UTF-8 bytes      *)
(*   "ref"     { saved, sizeBytes, url?, warning? }                        *)
(***************************************************************************)
NoValue == [t |-> "absent"]

NoUrl == <<>>

ImgStr(chars) == [t |-> "string", text |-> chars]

ImgObj(hasData, chars, url) ==
  [t |-> "object", hasData |-> hasData, text |-> chars, url |-> url]

ImgList(items) == [t |-> "array", items |-> items]

\* js is "string" for a JavaScript string and "json" for an object or array;
\* nchars and nbytes measure the string itself, or JSON.stringify of the object.
Text(js, id, nchars, nbytes) ==
  [t |-> "text", js |-> js, id |-> id, nchars |-> nchars, nbytes |-> nbytes]

Ref(path, sizeBytes, url, warning) ==
  [t |-> "ref", saved |-> path, sizeBytes |-> sizeBytes, url |-> url,
   warning |-> warning]

\* v != null
NotNullish(v) == v.t \notin {"absent", "null"}

(***************************************************************************)
(* The workspace and the files written.  A write is the path and the data; *)
(* binary data are the bytes, text data the identity and the UTF-8 size.   *)
(***************************************************************************)
Workspace == << "home", "openclaw", "workspace" >>

BinaryFile(bytes) == [t |-> "binary", bytes |-> bytes, nbytes |-> Len(bytes)]

TextFile(v) == [t |-> "textfile", id |-> v.id, nbytes |-> v.nbytes]

FileWrite(path, data) == [path |-> path, data |-> data]

\* The reference that reports the length of the base64 text.
writeArtifactBinaryTextSize(workspace, subdir, filename, base64Content) ==
  LET dir == join(workspace, << "riddle", "/", subdir >>)
      filePath == join(dir, filename)
      buf == Base64Decode(base64Content)
  IN [write |-> FileWrite(filePath, BinaryFile(buf)),
      path |-> filePath, sizeBytes |-> Len(base64Content)]

\* writeArtifactBinary: the write and the reference it returns.
writeArtifactBinary(workspace, subdir, filename, base64Content) ==
  LET dir == join(workspace, << "riddle", "/", subdir >>)
      filePath == join(dir, filename)
      buf == Base64Decode(base64Content)
  IN [write |-> FileWrite(filePath, BinaryFile(buf)),
      path |-> filePath, sizeBytes |-> Len(buf)]

\* writeArtifact: the content is written UTF-8 encoded.
writeArtifact(workspace, subdir, filename, content) ==
  LET dir == join(workspace, << "riddle", "/", subdir >>)
      filePath == join(dir, filename)
  IN [write |-> FileWrite(filePath, TextFile(content)),
      path |-> filePath, sizeBytes |-> content.nbytes]


(***************************************************************************)
(* RunResult.  Absent fields hold NoMode, NoJob, NoNumber, NoStatus,       *)
(* NoError or NoValue.                                                     *)
(***************************************************************************)
NoJob == <<>>

NoNumber == -1

NoStatus == ""

NoError == ""

EmptyResult ==
  [ok |-> TRUE, mode |-> NoMode, sync |-> FALSE, job_id |-> NoJob,
   duration_ms |-> NoNumber, status |-> NoStatus, screenshot |-> NoValue,
   screenshots |-> NoValue, console |-> NoValue, har |-> NoValue,
   result |-> NoValue, error |-> NoError, rawContentType |-> "",
   rawPngBase64 |-> NoValue, timeout |-> NoNumber,
   artifactsStatus |-> NoStatus, artifactsTimeout |-> NoNumber,
   artifactsError |-> NoError]

INLINE_CAP == 50 * 1024

(***************************************************************************)
(* applySafetySpec, one block at a time.  Each block maps a pair           *)
(* [result, writes] to the pair after it; writes is the sequence of files  *)
(* written so far.                                                         *)
(***************************************************************************)
\* result.job_id ?? "unknown"
\* The key without the placeholder: the job id as it is.
JobKeyAsIs(result) == result.job_id

JobKey(result) == IF result.job_id = NoJob THEN << "unknown" >> ELSE result.job_id

\* The base64 text the screenshot block finds in the value; <<>> stands for
\* null and for the empty string, which the block treats alike.
ScreenshotBase64(v) ==
  IF v.t = "string" THEN StripDataUrlPrefix(v.text)
  ELSE IF v.t = "object" /\ v.hasData /\ v.text # <<>>
  THEN StripDataUrlPrefix(v.text)
  ELSE <<>>

\* The same for an element of the screenshots array: a string is taken as
\* it is.
ListItemBase64(v) ==
  IF v.t = "string" THEN v.text
  ELSE IF v.t = "object" /\ v.hasData /\ v.text # <<>>
  THEN StripDataUrlPrefix(v.text)
  ELSE <<>>

\* typeof v === "object" ? v.url : undefined
CdnUrl(v) == IF v.t \in {"object", "ref"} THEN v.url ELSE NoUrl

SpoolScreenshot(st, opts) ==
  LET result == st.result
      v == result.screenshot
      base64Data == IF NotNullish(v) THEN ScreenshotBase64(v) ELSE <<>>
  IN IF base64Data = <<>> THEN st
     ELSE LET ref == writeArtifactBinary(opts.workspace, "screenshots",
                                         JobKey(result) \o << ".png" >>, base64Data)
          IN [result |-> [result EXCEPT
                            !.screenshot = Ref(ref.path, ref.sizeBytes, CdnUrl(v), FALSE)],
              writes |-> Append(st.writes, ref.write)]

RECURSIVE SpoolList(_, _, _, _, _, _)
SpoolList(items, i, jobId, workspace, savedRefs, writes) ==
  IF i > Len(items) THEN [savedRefs |-> savedRefs, writes |-> writes]
  ELSE LET ss == items[i]
           base64Data == ListItemBase64(ss)
       IN IF base64Data = <<>>
          THEN SpoolList(items, i + 1, jobId, workspace, savedRefs, writes)
          ELSE LET ref == writeArtifactBinary(workspace, "screenshots",
                              jobId \o << "-", ToString(i - 1), ".png" >>, base64Data)
               IN SpoolList(items, i + 1, jobId, workspace,
                            Append(savedRefs, Ref(ref.path, ref.sizeBytes, CdnUrl(ss), FALSE)),
                            Append(writes, ref.write))

SpoolScreenshots(st, opts) ==
  LET result == st.result
  IN IF result.screenshots.t # "array" THEN st
     ELSE LET done == SpoolList(result.screenshots.items, 1, JobKey(result),
                                opts.workspace, <<>>, st.writes)
          IN [result |-> [result EXCEPT !.screenshots = ImgList(done.savedRefs)],
              writes |-> done.writes]

\* The raw PNG block that also records the key as the job id.
SpoolRawPngKeepsKey(st, opts) ==
  LET result == st.result
  IN IF ~NotNullish(result.rawPngBase64) THEN st
     ELSE LET ref == writeArtifactBinary(opts.workspace, "screenshots",
                         JobKey(result) \o << ".png" >>, result.rawPngBase64.text)
          IN [result |-> [result EXCEPT
                            !.screenshot = Ref(ref.path, ref.sizeBytes, NoUrl, FALSE),
                            !.job_id = JobKey(result),
                            !.rawPngBase64 = NoValue],
              writes |-> Append(st.writes, ref.write)]

SpoolRawPng(st, opts) ==
  LET result == st.result
  IN IF ~NotNullish(result.rawPngBase64) THEN st
     ELSE LET ref == writeArtifactBinary(opts.workspace, "screenshots",
                         JobKey(result) \o << ".png" >>, result.rawPngBase64.text)
          IN [result |-> [result EXCEPT
                            !.screenshot = Ref(ref.path, ref.sizeBytes, NoUrl, FALSE),
                            !.rawPngBase64 = NoValue],
              writes |-> Append(st.writes, ref.write)]

\* typeof v === "string" ? v : JSON.stringify(v).  A reference, which a
\* result that was spooled before holds, serialises to a short text.
Stringify(v) ==
  IF v.t = "ref" THEN Text("json", "reference", 120, 120) ELSE v

\* The HAR block with a cap that 51200 bytes already exceed.
SpoolHarBelowCap(st, opts) ==
  LET result == st.result
      harStr == Stringify(result.har)
  IN IF ~NotNullish(result.har) THEN st
     ELSE IF opts.harInline /\ harStr.nbytes < INLINE_CAP THEN st
     ELSE LET ref == writeArtifact(opts.workspace, "har",
                                   JobKey(result) \o << ".har.json" >>, harStr)
          IN [result |-> [result EXCEPT
                            !.har = Ref(ref.path, ref.sizeBytes, NoUrl,
                                        opts.harInline /\ harStr.nbytes >= INLINE_CAP)],
              writes |-> Append(st.writes, ref.write)]

\* The HAR block that never adds the warning.
SpoolHarNoWarning(st, opts) ==
  LET result == st.result
      harStr == Stringify(result.har)
  IN IF ~NotNullish(result.har) THEN st
     ELSE IF opts.harInline /\ harStr.nbytes <= INLINE_CAP THEN st
     ELSE LET ref == writeArtifact(opts.workspace, "har",
                                   JobKey(result) \o << ".har.json" >>, harStr)
          IN [result |-> [result EXCEPT
                            !.har = Ref(ref.path, ref.sizeBytes, NoUrl, FALSE)],
              writes |-> Append(st.writes, ref.write)]

\* The console block that measures the string's length, not its bytes.
SpoolConsoleByLength(st, opts) ==
  LET result == st.result
      consoleStr == Stringify(result.console)
  IN IF ~NotNullish(result.console) THEN st
     ELSE IF consoleStr.nchars > INLINE_CAP
     THEN LET ref == writeArtifact(opts.workspace, "console",
                                   JobKey(result) \o << ".log" >>, consoleStr)
          IN [result |-> [result EXCEPT
                            !.console = Ref(ref.path, ref.sizeBytes, NoUrl, FALSE)],
              writes |-> Append(st.writes, ref.write)]
     ELSE st

SpoolHar(st, opts) ==
  LET result == st.result
      harStr == Stringify(result.har)
  IN IF ~NotNullish(result.har) THEN st
     ELSE IF opts.harInline /\ harStr.nbytes <= INLINE_CAP THEN st
     ELSE LET ref == writeArtifact(opts.workspace, "har",
                                   JobKey(result) \o << ".har.json" >>, harStr)
          IN [result |-> [result EXCEPT
                            !.har = Ref(ref.path, ref.sizeBytes, NoUrl,
                                        opts.harInline /\ harStr.nbytes > INLINE_CAP)],
              writes |-> Append(st.writes, ref.write)]

SpoolConsole(st, opts) ==
  LET result == st.result
      consoleStr == Stringify(result.console)
  IN IF ~NotNullish(result.console) THEN st
     ELSE IF consoleStr.nbytes > INLINE_CAP
     THEN LET ref == writeArtifact(opts.workspace, "console",
                                   JobKey(result) \o << ".log" >>, consoleStr)
          IN [result |-> [result EXCEPT
                            !.console = Ref(ref.path, ref.sizeBytes, NoUrl, FALSE)],
              writes |-> Append(st.writes, ref.write)]
     ELSE st

\* applySafetySpec(result, opts): the result after the call and the files
\* it wrote, in order.
applySafetySpec(result, opts) ==
  SpoolConsole(
    SpoolHar(
      SpoolRawPng(
        SpoolScreenshots(
          SpoolScreenshot([result |-> result, writes |-> <<>>], opts),
          opts),
        opts),
      opts),
    opts)


(***************************************************************************)
(* Configuration.  getCfg takes the key from the environment, else from    *)
(* the plugin's configuration, and the base URL from the configuration,    *)
(* else the default.  "" is an unset key and <<>> an unset base URL.       *)
(***************************************************************************)
DefaultBaseUrl == << "https:", "//", "api.riddledc.com" >>

ApiKeys == {"", "rk_live"}

BaseUrls ==
  { <<>>,
    << "https:", "//", "api.riddledc.com", "/" >>,
    << "http:", "//", "api.riddledc.com" >>,
    << "https:", "//", "evil.example" >>,
    << "https:", "//", "api.riddledc.com", "@", "evil.example" >>,
    << "https:", "//", "api.riddledc.com.evil.example", "/" >>,
    << "https:", "//", "evil.example", "/", "api.riddledc.com" >>,
    << "api.riddledc.com" >> }

getCfg(envKey, pluginCfg) ==
  [apiKey |-> IF envKey # "" THEN envKey ELSE pluginCfg.apiKey,
   baseUrl |-> IF pluginCfg.baseUrl # <<>> THEN pluginCfg.baseUrl ELSE DefaultBaseUrl]

(***************************************************************************)
(* Requests.  A request is its method, its URL and whether it carries the  *)
(* Authorization: Bearer <apiKey> header; kind names the call that made    *)
(* it, and answer is the response that came back, NoAnswer while the       *)
(* request is in flight.                                                   *)
(***************************************************************************)
NoAnswer == [t |-> "none"]

Request(kind, method, url, auth) ==
  [kind |-> kind, method |-> method, url |-> url, auth |-> auth, answer |-> NoAnswer]

\* postRun's request
PostRunRequest(baseUrl, payload) ==
  [kind |-> "run", method |-> "POST",
   url |-> Endpoint(baseUrl, << "/", "v1", "/", "run" >>), auth |-> TRUE,
   answer |-> NoAnswer, body |-> payload]

\* pollJobStatus's and riddle_poll's request
StatusRequest(baseUrl, jobId) ==
  Request("status", "GET",
          Endpoint(baseUrl, << "/", "v1", "/", "jobs", "/" >> \o jobId), TRUE)

RECURSIVE JoinComma(_)
JoinComma(include) ==
  IF include = <<>> THEN <<>>
  ELSE IF Len(include) = 1 THEN << include[1] >>
  ELSE << include[1], "," >> \o JoinComma(Tail(include))

\* fetchArtifactsAndBuild's first request
ArtifactsRequest(baseUrl, jobId, include) ==
  Request("artifacts", "GET",
          Endpoint(baseUrl, << "/", "v1", "/", "jobs", "/" >> \o jobId
                            \o << "/", "artifacts", "?", "include=" >>
                            \o JoinComma(include)),
          TRUE)

\* fetch(url) of an artifact: no headers
DownloadRequest(url) == Request("download", "GET", url, FALSE)


(***************************************************************************)
(* What the remote service and the CDN may answer.                         *)
(***************************************************************************)
Job1 == << "job_1" >>

\* A job id that climbs out of the directory it is used in.
JobDotDot == << "..", "/", "..", "/", "..", "/", "etc", "/", "x" >>

PngBytes == << 137, 80, 78, 71 >>

JpegBytes == << 255, 216 >>

\* The URL of a file on the CDN.
Cdn(file) == << "https:", "//", "cdn.riddledc.com", "/", "job_1", "/", file >>

\* Console logs, HARs and results: the 10 byte log of the scenarios, and
\* texts over the cap in bytes but not in characters.
Console10 == Text("string", "console-10", 10, 10)

ConsoleOverCap == Text("string", "console-over", INLINE_CAP - 100, INLINE_CAP + 1)

HarSmall == Text("json", "har-small", 2000, 2010)

HarOverCap == Text("json", "har-over", INLINE_CAP, INLINE_CAP + 1)

ResultJson == Text("json", "result", 40, 40)

\* Texts of exactly INLINE_CAP bytes.
HarAtCap == Text("json", "har-at-cap", INLINE_CAP - 7, INLINE_CAP)

ConsoleAtCap == Text("json", "console-at-cap", INLINE_CAP, INLINE_CAP)

\* null
NullValue == [t |-> "null"]

\* The shapes of a screenshot value in a synchronous JSON body.
ScreenshotValues ==
  { NoValue,
    ImgStr(Base64Encode(PngBytes)),
    ImgStr(PngDataUrlPrefix \o Base64Encode(PngBytes)),
    ImgObj(TRUE, PngDataUrlPrefix \o Base64Encode(JpegBytes), Cdn("screenshot.png")),
    ImgObj(FALSE, <<>>, Cdn("screenshot.png")),
    ImgStr(<<>>) }

ScreenshotLists ==
  { NoValue,
    ImgList(<< ImgStr(Base64Encode(PngBytes)),
               ImgObj(TRUE, PngDataUrlPrefix \o Base64Encode(JpegBytes), Cdn("page.JPG")) >>) }

\* A JSON body: the fields the code reads or merges.  status_url is TRUE
\* when the body has one.
Json(job_id, status_url, status, screenshot, screenshots, console, har, error) ==
  [job_id |-> job_id, status_url |-> status_url, status |-> status,
   screenshot |-> screenshot, screenshots |-> screenshots, console |-> console,
   har |-> har, error |-> error]

JobJson(job_id, status_url) ==
  Json(job_id, status_url, NoStatus, NoValue, NoValue, NoValue, NoValue, NoError)

JsonBody(json) == [t |-> "json", json |-> json]

\* A body that JSON.parse rejects.
HtmlBody == [t |-> "html"]

ImageBody(bytes) == [t |-> "image", bytes |-> bytes]

\* The response to POST /v1/run: the status, the content-type header, the
\* body and the x-job-id and x-duration-ms headers.
PostResponse(status, contentType, body, xJobId, xDurationMs) ==
  [status |-> status, contentType |-> contentType, body |-> body,
   xJobId |-> xJobId, xDurationMs |-> xDurationMs]

Plain(status, contentType, body) ==
  PostResponse(status, contentType, body, NoJob, NoNumber)

PostResponses ==
  { Plain(408, "application/json", JsonBody(JobJson(j, FALSE))) :
      j \in {Job1, NoJob} }
  \cup { Plain(408, "text/html", HtmlBody) }
  \cup { Plain(202, "application/json", JsonBody(JobJson(Job1, FALSE))),
         Plain(202, "application/json",
               JsonBody(Json(Job1, TRUE, "queued", NoValue, NoValue, NoValue,
                             NoValue, NoError))) }
  \cup { Plain(400, "application/json",
               JsonBody(Json(NoJob, FALSE, NoStatus, NoValue, NoValue, NoValue,
                             NoValue, "invalid_request"))),
         Plain(500, "text/html", HtmlBody) }
  \cup { PostResponse(200, "image/png", ImageBody(b), j, d) :
           b \in {PngBytes, <<>>}, j \in {NoJob, Job1, JobDotDot}, d \in {NoNumber, 1234} }
  \cup { Plain(200, "image/jpeg", ImageBody(JpegBytes)),
         Plain(200, "text/html", HtmlBody) }
  \cup { Plain(200, "application/json",
               JsonBody(Json(j, FALSE, st, s, ss, c, h, NoError))) :
           j \in {NoJob, Job1},
           st \in {NoStatus, "completed", "completed_timeout", "failed"},
           s \in ScreenshotValues, ss \in ScreenshotLists,
           c \in {NoValue, Console10, ConsoleOverCap}, h \in {NoValue, HarSmall} }


\* GET /v1/jobs/{id}: { status, error?, duration_ms?, timeout? }
StatusData(status, error, duration_ms, timeout) ==
  [status |-> status, error |-> error, duration_ms |-> duration_ms,
   timeout |-> timeout]

\* A response of the status endpoint: res.ok, res.status and the body.
StatusResponse(ok, http, body) == [ok |-> ok, http |-> http, body |-> body]

TerminalStatuses == {"completed", "completed_timeout", "completed_error", "failed"}

StatusResponses ==
  { StatusResponse(FALSE, 500, HtmlBody),
    StatusResponse(TRUE, 200, HtmlBody),
    StatusResponse(TRUE, 200, JsonBody(StatusData("running", NoError, NoNumber, NoNumber))),
    StatusResponse(TRUE, 200, JsonBody(StatusData("completed", NoError, 1500, NoNumber))),
    StatusResponse(TRUE, 200, JsonBody(StatusData("completed_timeout", NoError, 10000, 10))),
    StatusResponse(TRUE, 200,
                   JsonBody(StatusData("completed_error", "script error", 700, NoNumber))),
    StatusResponse(TRUE, 200, JsonBody(StatusData("failed", "boom", NoNumber, NoNumber))),
    StatusResponse(TRUE, 200, JsonBody(StatusData("failed", NoError, NoNumber, NoNumber))) }

\* An entry of the artifact index: the name, as tokens of which the last is
\* the extension, and the URL (NoUrl when the entry has none).
Artifact(name, url) == [name |-> name, url |-> url]

ArtifactEntries ==
  { Artifact(<< "screenshot", ".png" >>, Cdn("screenshot.png")),
    Artifact(<< "page", ".JPG" >>, Cdn("page.JPG")),
    Artifact(<< "late", ".png" >>, NoUrl),
    Artifact(<< "console", ".json" >>, Cdn("console.json")),
    Artifact(<< "result", ".json" >>, Cdn("result.json")),
    Artifact(<< "network", ".har" >>, Cdn("network.har")) }

MaxArtifacts == 2

\* The artifact lists of an index: up to MaxArtifacts entries, no entry
\* listed twice.
ArtifactIndexes ==
  UNION { { a \in [1..n -> ArtifactEntries] :
              \A i \in 1..n, j \in 1..n : a[i] = a[j] => i = j } :
          n \in 0..MaxArtifacts }

\* GET /v1/jobs/{id}/artifacts: { artifacts, status?, timeout?, error? }
IndexData(artifacts, status, timeout, error) ==
  [artifacts |-> artifacts, status |-> status, timeout |-> timeout, error |-> error]

IndexResponses ==
  { StatusResponse(FALSE, 500, HtmlBody), StatusResponse(TRUE, 200, HtmlBody) }
  \cup { StatusResponse(TRUE, 200, JsonBody(IndexData(a, NoStatus, NoNumber, NoError))) :
           a \in ArtifactIndexes }
  \cup { StatusResponse(TRUE, 200,
                        JsonBody(IndexData(<<>>, "completed_timeout", 10, "timed out"))) }

\* What a download may do: answer 2xx with a body, answer non-2xx, or fail
\* (fetch rejects).  The body of an image is its bytes; the body of a JSON
\* artifact is the parsed value, or HtmlBody when it does not parse.
Download(outcome, body) == [outcome |-> outcome, body |-> body]

ImageDownloads ==
  { Download("ok", ImageBody(PngBytes)),
    Download("http_error", HtmlBody), Download("network_error", HtmlBody) }

JsonDownloads(values) ==
  { Download("ok", JsonBody(v)) : v \in values }
  \cup { Download("ok", HtmlBody), Download("http_error", HtmlBody),
         Download("network_error", HtmlBody) }


(***************************************************************************)
(* The tools' parameters.  A payload holds the four mode fields, include   *)
(* (<<>> when absent), harInline and timeout_sec (NoNumber when absent).   *)
(***************************************************************************)
Payload(url, urls, steps, script, include, harInline, timeout_sec) ==
  [url |-> url, urls |-> urls, steps |-> steps, script |-> script,
   include |-> include, harInline |-> harInline, timeout_sec |-> timeout_sec]

RunPayloads ==
  { Payload(JsStr, Absent, Absent, Absent, <<>>, FALSE, NoNumber),
    Payload(Absent, Absent, JsArr, JsStr, << "console", "har" >>, TRUE, 10) }

NoPayload == Payload(Absent, Absent, Absent, Absent, <<>>, FALSE, NoNumber)

\* riddle_run's defaults
RunDefaultInclude == << "screenshot", "console", "result" >>

\* The defaults.include each tool gives runWithDefaults, and the fallback
\* runWithDefaults uses when given none.
ToolDefaultIncludes ==
  [riddle_run |-> RunDefaultInclude,
   riddle_screenshot |-> << "screenshot", "console" >>,
   riddle_screenshots |-> << "screenshot", "console" >>,
   riddle_steps |-> << "screenshot", "console", "result", "data", "urls",
                       "dataset", "sitemap", "visual_diff" >>,
   riddle_script |-> << "screenshot", "console", "result", "data", "urls",
                        "dataset", "sitemap", "visual_diff" >>,
   riddle_scrape |-> << "result", "console" >>,
   riddle_map |-> << "result", "console" >>,
   riddle_crawl |-> << "result", "console" >>,
   riddle_visual_diff |-> << "result", "console", "visual_diff" >>,
   fallback |-> << "screenshot", "console" >>]

\* riddle_poll's default include
PollDefaultInclude == << "screenshot", "console", "result" >>

Params(payload, returnAsync, job_id, include, harInline) ==
  [payload |-> payload, returnAsync |-> returnAsync, job_id |-> job_id,
   include |-> include, harInline |-> harInline, directory |-> "",
   sensitive |-> FALSE, timeout |-> NoNumber]

\* The parameters of riddle_preview and riddle_server_preview: the build
\* directory ("" when the parameter is missing), whether sensitive_env or
\* localStorage is given, and timeout; of riddle_preview_delete: the id.
PreviewParams(directory, sensitive, timeout, id) ==
  [Params(NoPayload, FALSE, id, <<>>, FALSE) EXCEPT
     !.directory = directory, !.sensitive = sensitive, !.timeout = timeout]

Directories == {"", "/nonexistent", "/site/build"}

\* stat(dir) succeeds and names a directory
IsDirectory(dir) == dir = "/site/build"

Preview1 == << "pv_a1b2c3d4" >>

ToolParams ==
  [riddle_run |->
     { Params(p, a, NoJob, <<>>, FALSE) : p \in RunPayloads, a \in BOOLEAN },
   riddle_poll |->
     { Params(NoPayload, FALSE, Job1, <<>>, FALSE),
       Params(NoPayload, FALSE, Job1, << "har" >>, TRUE),
       Params(NoPayload, FALSE, JobDotDot, << "har" >>, FALSE),
       Params(NoPayload, FALSE, NoJob, <<>>, FALSE) },
   riddle_preview |->
     { PreviewParams(d, FALSE, NoNumber, NoJob) : d \in Directories },
   riddle_preview_delete |->
     { PreviewParams("", FALSE, NoNumber, Preview1) },
   riddle_server_preview |->
     { PreviewParams(d, sens, t, NoJob) :
         d \in Directories, sens \in BOOLEAN, t \in {NoNumber, 30} }]

\* The parameters every configuration is tried with.
FirstParams ==
  [riddle_run |-> Params(Payload(JsStr, Absent, Absent, Absent, <<>>, FALSE, NoNumber),
                         FALSE, NoJob, <<>>, FALSE),
   riddle_poll |-> Params(NoPayload, FALSE, Job1, <<>>, FALSE),
   riddle_preview |-> PreviewParams("/site/build", FALSE, NoNumber, NoJob),
   riddle_preview_delete |-> PreviewParams("", FALSE, NoNumber, Preview1),
   riddle_server_preview |-> PreviewParams("/site/build", TRUE, NoNumber, NoJob)]

\* Array.from(new Set(xs))
RECURSIVE Dedupe(_, _)
Dedupe(xs, acc) ==
  IF xs = <<>> THEN acc
  ELSE IF \E i \in 1..Len(acc) : acc[i] = Head(xs)
  THEN Dedupe(Tail(xs), acc)
  ELSE Dedupe(Tail(xs), Append(acc, Head(xs)))

\* xs.includes(x)
Includes(xs, x) == \E i \in 1..Len(xs) : xs[i] = x

\* merged.include of runWithDefaults
MergedInclude(payload, defaultInc) == Dedupe(payload.include \o defaultInc, <<>>)

\* The merge that leaves harInline in the body and in the caller's payload
\* takes the merged include.
MergeDefaultsInPlace(payload, defaults) ==
  [merged |->
     [url |-> payload.url, urls |-> payload.urls, steps |-> payload.steps,
      script |-> payload.script, timeout_sec |-> payload.timeout_sec,
      harInline |-> IF payload.harInline THEN "true" ELSE "false",
      sync |-> IF defaults.returnAsync THEN "false" ELSE "absent",
      include |-> MergedInclude(payload, defaults.include),
      inlineConsole |-> "true",
      inlineResult |-> "true",
      inlineHar |-> IF Includes(payload.include, "har") THEN "true" ELSE "absent"],
   payload |-> [payload EXCEPT !.include = MergedInclude(payload, defaults.include)]]

\* merged of runWithDefaults, the body it posts, and the caller's payload
\* as the merge leaves it: merged is a copy, { ...payload }, so the payload
\* is as it was.  A flag of merged is "true", "false" or "absent".
MergeDefaults(payload, defaults) ==
  [merged |->
     [url |-> payload.url, urls |-> payload.urls, steps |-> payload.steps,
      script |-> payload.script, timeout_sec |-> payload.timeout_sec,
      harInline |-> "absent",
      sync |-> IF defaults.returnAsync THEN "false" ELSE "absent",
      include |-> MergedInclude(payload, defaults.include),
      inlineConsole |-> "true",
      inlineResult |-> "true",
      inlineHar |-> IF Includes(payload.include, "har") THEN "true" ELSE "absent"],
   payload |-> payload]

\* The bound without the 30 s buffer.
PollMaxMsNoBuffer(payload) ==
  (IF payload.timeout_sec = NoNumber THEN 60 ELSE payload.timeout_sec) * 1000

\* pollMaxMs of runWithDefaults
PollMaxMs(payload) ==
  (IF payload.timeout_sec = NoNumber THEN 60 ELSE payload.timeout_sec) * 1000 + 30000

POLL_INTERVAL == 2000

(***************************************************************************)
(* The state: one tool execution.                                          *)
(*   tool, cfg, params  the tool called, getCfg's result, the parameters   *)
(*   pc                 where the execution is suspended: "start", an      *)
(*                      await of a response, "done" (returned) or "threw"  *)
(*   out                the RunResult being built, and at "done" returned  *)
(*   reqs               the requests issued so far, in order               *)
(*   files              the files written so far, in order                 *)
(*   local              the locals of the suspended functions              *)
(***************************************************************************)
VARIABLES tool, cfg, params, pc, out, reqs, files, local

vars == << tool, cfg, params, pc, out, reqs, files, local >>

\* via: the call site of the poll or of fetchArtifactsAndBuild ("408",
\* "202", "riddle_poll"); jobId; elapsed: Date.now() - start in
\* pollJobStatus; jobStatus: what the poll returned; include; plan and k:
\* the downloads of fetchArtifactsAndBuild and the one awaited; result:
\* its result so far.
Local0 ==
  [via |-> "", jobId |-> NoJob, elapsed |-> 0,
   jobStatus |-> StatusData(NoStatus, NoError, NoNumber, NoNumber),
   include |-> <<>>, plan |-> <<>>, k |-> 0, result |-> EmptyResult]

\* The step an execution takes: the next pc, the result, the requests it
\* issues, the files it writes and the locals it keeps.
Step(pc2, out2, reqs2, writes2, local2) ==
  [pc |-> pc2, out |-> out2, reqs |-> reqs2, writes |-> writes2, local |-> local2]

Return(result) == Step("done", result, <<>>, <<>>, Local0)

Throw(result) == Step("threw", result, <<>>, <<>>, Local0)

\* The return that leaves the spooler out.
ReturnUnspooled(result, harInline) == Return(result)

\* await applySafetySpec(out, { workspace, harInline }); return out
SpoolAndReturn(result, harInline) ==
  LET st == applySafetySpec(result, [workspace |-> Workspace, harInline |-> harInline])
  IN Step("done", st.result, <<>>, st.writes, Local0)

Take(step, answer) ==
  /\ pc' = step.pc
  /\ out' = step.out
  /\ reqs' = (IF reqs = <<>> THEN reqs
               ELSE [reqs EXCEPT ![Len(reqs)].answer = answer]) \o step.reqs
  /\ files' = files \o step.writes
  /\ local' = step.local
  /\ UNCHANGED << tool, cfg, params >>


(***************************************************************************)
(* fetchArtifactsAndBuild.                                                 *)
(***************************************************************************)
\* /\.(png|jpg|jpeg)$/i.test(name)
IsImageName(name) ==
  /\ name # <<>>
  /\ name[Len(name)] \in {".png", ".jpg", ".jpeg", ".PNG", ".JPG", ".JPEG"}

\* artifacts.find(a => a.name === name): the first such entry, as a
\* sequence of at most one entry.
Find(artifacts, name) ==
  LET hits == {i \in 1..Len(artifacts) : artifacts[i].name = name}
  IN IF hits = {} THEN <<>>
     ELSE << artifacts[CHOOSE i \in hits : \A j \in hits : i <= j] >>

\* The filter that knows lower-case extensions only.
ScreenshotsLowerCase(artifacts) ==
  SelectSeq(artifacts, LAMBDA a : /\ a.name # <<>>
                                  /\ a.name[Len(a.name)] \in {".png", ".jpg", ".jpeg"})

\* artifacts.filter(...)
Screenshots(artifacts) == SelectSeq(artifacts, LAMBDA a : IsImageName(a.name))

HasUrl(a) == a.url # NoUrl

Fetch(phase, a) == [phase |-> phase, name |-> a.name, url |-> a.url]

FetchesOf(phase, found) ==
  IF found # <<>> /\ HasUrl(found[1]) THEN << Fetch(phase, found[1]) >> ELSE <<>>

\* The plan that fetches console.json before the images.
DownloadPlanConsoleFirst(artifacts, include) ==
  LET shots == SelectSeq(Screenshots(artifacts), HasUrl)
  IN FetchesOf("console", Find(artifacts, << "console", ".json" >>))
     \o [i \in 1..Len(shots) |-> Fetch("screenshots", shots[i])]
     \o FetchesOf("result", Find(artifacts, << "result", ".json" >>))
     \o (IF Includes(include, "har")
         THEN FetchesOf("har", Find(artifacts, << "network", ".har" >>))
         ELSE <<>>)

\* The plan that fetches network.har whatever include holds.
DownloadPlanWithHar(artifacts, include) ==
  LET shots == SelectSeq(Screenshots(artifacts), HasUrl)
  IN [i \in 1..Len(shots) |-> Fetch("screenshots", shots[i])]
     \o FetchesOf("console", Find(artifacts, << "console", ".json" >>))
     \o FetchesOf("result", Find(artifacts, << "result", ".json" >>))
     \o FetchesOf("har", Find(artifacts, << "network", ".har" >>))

\* The downloads fetchArtifactsAndBuild makes for an index, in the order it
\* makes them: no outcome of a download changes what is downloaded next.
DownloadPlan(artifacts, include) ==
  LET shots == SelectSeq(Screenshots(artifacts), HasUrl)
  IN [i \in 1..Len(shots) |-> Fetch("screenshots", shots[i])]
     \o FetchesOf("console", Find(artifacts, << "console", ".json" >>))
     \o FetchesOf("result", Find(artifacts, << "result", ".json" >>))
     \o (IF Includes(include, "har")
         THEN FetchesOf("har", Find(artifacts, << "network", ".har" >>))
         ELSE <<>>)

\* result after the index was read: the propagated fields, and
\* result.screenshots = [] when the index lists an image.
IndexResult(data) ==
  [EmptyResult EXCEPT
     !.artifactsStatus = data.status,
     !.artifactsTimeout = data.timeout,
     !.artifactsError = data.error,
     !.screenshots = IF Screenshots(data.artifacts) # <<>> THEN ImgList(<<>>) ELSE NoValue]

\* The download whose failure is reported in the result's error.
DownloadedOrError(result, f, d) ==
  IF f.phase = "screenshots"
  THEN IF d.outcome = "ok"
       THEN LET shot == ImgObj(TRUE, PngDataUrlPrefix \o Base64Encode(d.body.bytes), f.url)
                items == Append(result.screenshots.items, shot)
            IN [result EXCEPT !.screenshots = ImgList(items),
                              !.screenshot = items[1]]
       ELSE [result EXCEPT !.error = "Download failed"]
  ELSE IF d.outcome = "ok" /\ d.body.t = "json"
  THEN IF f.phase = "console" THEN [result EXCEPT !.console = d.body.json]
       ELSE IF f.phase = "result" THEN [result EXCEPT !.result = d.body.json]
       ELSE [result EXCEPT !.har = d.body.json]
  ELSE [result EXCEPT !.error = "Download failed"]

\* result after the download of fetch f was answered by d.
Downloaded(result, f, d) ==
  IF f.phase = "screenshots"
  THEN IF d.outcome = "ok"
       THEN LET shot == ImgObj(TRUE, PngDataUrlPrefix \o Base64Encode(d.body.bytes), f.url)
                items == Append(result.screenshots.items, shot)
            IN [result EXCEPT !.screenshots = ImgList(items),
                              !.screenshot = items[1]]
       ELSE result
  ELSE IF d.outcome = "ok" /\ d.body.t = "json"
  THEN IF f.phase = "console" THEN [result EXCEPT !.console = d.body.json]
       ELSE IF f.phase = "result" THEN [result EXCEPT !.result = d.body.json]
       ELSE [result EXCEPT !.har = d.body.json]
  ELSE result

\* Object.assign(out, artifacts): the keys fetchArtifactsAndBuild set.
AssignArtifacts(o, a) ==
  [o EXCEPT
     !.error = IF a.error # NoError THEN a.error ELSE @,
     !.artifactsStatus = IF a.artifactsStatus # NoStatus THEN a.artifactsStatus ELSE @,
     !.artifactsTimeout = IF a.artifactsTimeout # NoNumber THEN a.artifactsTimeout ELSE @,
     !.artifactsError = IF a.artifactsError # NoError THEN a.artifactsError ELSE @,
     !.screenshots = IF a.screenshots # NoValue THEN a.screenshots ELSE @,
     !.screenshot = IF a.screenshot # NoValue THEN a.screenshot ELSE @,
     !.console = IF a.console # NoValue THEN a.console ELSE @,
     !.result = IF a.result # NoValue THEN a.result ELSE @,
     !.har = IF a.har # NoValue THEN a.har ELSE @]


\* The end of fetchArtifactsAndBuild's caller, from the call's return on:
\* runWithDefaults after a 408 and after a 202, and riddle_poll.
AfterArtifacts(o, loc, artifacts) ==
  LET js == loc.jobStatus
      merged ==
        IF loc.via = "riddle_poll"
        THEN AssignArtifacts([EmptyResult EXCEPT !.ok = (js.status = "completed"),
                                                 !.job_id = loc.jobId,
                                                 !.status = js.status,
                                                 !.duration_ms = js.duration_ms],
                             artifacts)
        ELSE [AssignArtifacts(o, artifacts) EXCEPT
                !.job_id = IF loc.via = "408" THEN loc.jobId ELSE @,
                !.status = js.status,
                !.duration_ms = js.duration_ms]
      final ==
        IF js.status # "completed"
        THEN [merged EXCEPT
                !.ok = IF loc.via = "riddle_poll" THEN @ ELSE FALSE,
                !.timeout = IF js.timeout # NoNumber /\ js.timeout # 0 THEN js.timeout ELSE @,
                !.error = IF js.error # NoError THEN js.error ELSE @]
        ELSE merged
      harInline == IF loc.via = "riddle_poll" THEN params.harInline
                   ELSE params.payload.harInline
  IN SpoolAndReturn(final, harInline)

\* fetchArtifactsAndBuild from the k-th download on: the next fetch is
\* issued, or the function returns to its caller.
NextDownload(o, loc) ==
  IF loc.k <= Len(loc.plan)
  THEN Step("download", o, << DownloadRequest(loc.plan[loc.k].url) >>, <<>>, loc)
  ELSE AfterArtifacts(o, loc, loc.result)

\* The call of fetchArtifactsAndBuild: its first request.
FetchArtifacts(o, loc) ==
  Step("index", o, << ArtifactsRequest(cfg.baseUrl, loc.jobId, loc.include) >>, <<>>, loc)

\* The call that fetches the artifacts without looking at the job's status.
AfterPollNoCheck(o, loc, jobStatus) ==
  FetchArtifacts(o, [loc EXCEPT !.jobStatus = jobStatus, !.elapsed = 0])

\* The check that lets a failed job through to the artifacts.
AfterPollFetchesFailed(o, loc, jobStatus) ==
  IF jobStatus.status \in {"poll_timeout", "poll_error"}
  THEN Return([o EXCEPT
                 !.ok = FALSE,
                 !.status = jobStatus.status,
                 !.error = jobStatus.error])
  ELSE FetchArtifacts(o, [loc EXCEPT !.jobStatus = jobStatus, !.elapsed = 0])

\* runWithDefaults from pollJobStatus's return on.
AfterPoll(o, loc, jobStatus) ==
  IF jobStatus.status \in {"poll_timeout", "poll_error", "failed"}
  THEN Return([o EXCEPT
                 !.ok = FALSE,
                 !.status = jobStatus.status,
                 !.error = IF jobStatus.error # NoError THEN jobStatus.error
                           ELSE "Job " \o jobStatus.status])
  ELSE FetchArtifacts(o, [loc EXCEPT !.jobStatus = jobStatus, !.elapsed = 0])

PollTimeout == StatusData("poll_timeout", "Job did not complete in time", NoNumber, NoNumber)

PollError(http) == StatusData("poll_error", "HTTP " \o ToString(http), NoNumber, NoNumber)

\* pollJobStatus at its loop condition, elapsed being Date.now() - start:
\* the next status request, or poll_timeout.
PollLoop(o, loc) ==
  IF loc.elapsed < PollMaxMs(params.payload)
  THEN Step("poll", o, << StatusRequest(cfg.baseUrl, loc.jobId) >>, <<>>, loc)
  ELSE AfterPoll(o, loc, PollTimeout)

\* The call of pollJobStatus and what follows it in runWithDefaults.
Poll(o, jobId, via) ==
  PollLoop(o, [Local0 EXCEPT
                 !.via = via, !.jobId = jobId,
                 !.include = MergedInclude(params.payload, RunDefaultInclude)])


(***************************************************************************)
(* runWithDefaults.                                                        *)
(***************************************************************************)
MissingKey == "Missing Riddle API key"

\* Object.assign(out, json), and out.job_id = json.job_id ?? out.job_id
AssignJson(o, json) ==
  [o EXCEPT
     !.job_id = IF json.job_id # NoJob THEN json.job_id ELSE @,
     !.status = IF json.status # NoStatus THEN json.status ELSE @,
     !.screenshot = IF json.screenshot # NoValue THEN json.screenshot ELSE @,
     !.screenshots = IF json.screenshots # NoValue THEN json.screenshots ELSE @,
     !.console = IF json.console # NoValue THEN json.console ELSE @,
     !.har = IF json.har # NoValue THEN json.har ELSE @,
     !.error = IF json.error # NoError THEN json.error ELSE @]

\* The 4xx/5xx branch retrying as a poll instead of returning.
ErrorResponseAsPoll(o, resp) == Poll([o EXCEPT !.job_id = Job1], Job1, "408")

\* if (status >= 400) ...: error is the parsed body, else "HTTP <status>"
ErrorResponse(o, resp) ==
  IF resp.body.t = "json"
  THEN Return([o EXCEPT !.ok = FALSE, !.error = resp.body.json.error])
  ELSE Return([o EXCEPT !.ok = FALSE, !.error = "HTTP " \o ToString(resp.status)])

\* The async branches polling all the same.
DeferredNoAsync(o, jobId, via) == Poll(o, jobId, via)

\* The job was deferred (408 with a job_id, 202 with job_id and status_url):
\* return at once in async mode, else poll.
Deferred(o, jobId, via) ==
  IF params.returnAsync
  THEN Return([o EXCEPT !.status = "submitted"])
  ELSE Poll(o, jobId, via)

\* The 408 branch polling even in async mode.
Response408NoAsync(o, resp) ==
  LET jobIdFrom408 == IF resp.body.t = "json" THEN resp.body.json.job_id ELSE NoJob
  IN IF jobIdFrom408 = NoJob
     THEN Return([o EXCEPT !.ok = FALSE,
                           !.error = "Sync poll timed out but no job_id in 408 response"])
     ELSE Poll([o EXCEPT !.job_id = jobIdFrom408], jobIdFrom408, "408")

\* if (status === 408) ...
Response408(o, resp) ==
  LET jobIdFrom408 == IF resp.body.t = "json" THEN resp.body.json.job_id ELSE NoJob
  IN IF jobIdFrom408 = NoJob
     THEN Return([o EXCEPT !.ok = FALSE,
                           !.error = "Sync poll timed out but no job_id in 408 response"])
     ELSE Deferred([o EXCEPT !.job_id = jobIdFrom408], jobIdFrom408, "408")

\* contentType && contentType.includes("image/png")
IsRawImage(contentType) == contentType \in {"image/png"}

\* The raw PNG branch that returns the base64 text inline.
RawPngResponseInline(o, resp) ==
  Return([o EXCEPT !.rawPngBase64 = ImgStr(Base64Encode(resp.body.bytes)),
                   !.job_id = resp.xJobId,
                   !.duration_ms = resp.xDurationMs,
                   !.sync = TRUE])

\* Raw PNG response
RawPngResponse(o, resp) ==
  SpoolAndReturn([o EXCEPT !.rawPngBase64 = ImgStr(Base64Encode(resp.body.bytes)),
                           !.job_id = resp.xJobId,
                           !.duration_ms = resp.xDurationMs,
                           !.sync = TRUE],
                 params.payload.harInline)

\* The tail that returns the merged body without the spooler.
SyncTailNoSpool(o, json) ==
  Return(IF json.status \in {"completed_timeout", "completed_error"}
         THEN [o EXCEPT !.ok = FALSE] ELSE o)

\* The tail of runWithDefaults: a synchronous JSON result.
SyncTail(o, json) ==
  SpoolAndReturn(IF json.status \in {"completed_timeout", "completed_error"}
                 THEN [o EXCEPT !.ok = FALSE] ELSE o,
                 params.payload.harInline)

\* JSON.parse of the body, the merge, and the 202 branch.
JsonResponse(o, resp) ==
  IF resp.body.t # "json" THEN Throw(o)
  ELSE LET json == resp.body.json
           merged == AssignJson(o, json)
       IN IF resp.status = 202 /\ merged.job_id # NoJob /\ json.status_url
          THEN Deferred(merged, merged.job_id, "202")
          ELSE SyncTail(merged, json)

\* runWithDefaults from postRun's return on.
Classify(o, resp) ==
  IF resp.status = 408 THEN Response408(o, resp)
  ELSE IF resp.status >= 400 THEN ErrorResponse(o, resp)
  ELSE IF IsRawImage(resp.contentType) THEN RawPngResponse(o, resp)
  ELSE JsonResponse(o, resp)

\* The guard left out: the request is sent whatever the configuration.
GuardedAlways(step) == step

\* The guard of every tool: without a key the tool returns ok:false, on a
\* base URL that is not allowed assertAllowedBaseUrl throws, and otherwise
\* the tool goes on with step.
Guarded(step) ==
  IF cfg.apiKey = ""
  THEN Return([EmptyResult EXCEPT !.ok = FALSE, !.error = MissingKey])
  ELSE IF ~assertAllowedBaseUrl(cfg.baseUrl) THEN Throw(EmptyResult)
  ELSE step

\* runWithDefaults up to the await of postRun.
RunStart ==
  /\ pc = "start"
  /\ tool = "riddle_run"
  /\ LET m == MergeDefaults(params.payload,
                            [include |-> RunDefaultInclude,
                             returnAsync |-> params.returnAsync])
         step == Guarded(Step("run_post",
                              [EmptyResult EXCEPT !.mode = detectMode(params.payload)],
                              << PostRunRequest(cfg.baseUrl, m.merged) >>, <<>>, Local0))
     IN /\ pc' = step.pc
        /\ out' = step.out
        /\ reqs' = reqs \o step.reqs
        /\ files' = files \o step.writes
        /\ local' = step.local
        /\ params' = [params EXCEPT !.payload = IF step.pc = "run_post"
                                                THEN m.payload ELSE @]
        /\ UNCHANGED << tool, cfg >>

\* The response to POST /v1/run arrives.
RunPostResponse ==
  /\ pc = "run_post"
  /\ \E resp \in PostResponses :
       Take(Classify([out EXCEPT !.rawContentType = resp.contentType], resp),
            resp)


(***************************************************************************)
(* Time.  A status request takes LatencyFast or LatencySlow milliseconds;  *)
(* pollJobStatus sleeps POLL_INTERVAL after a response that is not         *)
(* terminal.                                                               *)
(***************************************************************************)
LatencyFast == 45000

LatencySlow == 60000

Latencies == {LatencyFast, LatencySlow}

\* The loop that retries after a non-2xx response.
PollStepRetries(o, loc, resp) ==
  IF ~resp.ok THEN PollLoop(o, [loc EXCEPT !.elapsed = @ + POLL_INTERVAL])
  ELSE IF resp.body.t # "json" THEN Throw(o)
  ELSE IF resp.body.json.status \in TerminalStatuses
  THEN AfterPoll(o, loc, resp.body.json)
  ELSE PollLoop(o, [loc EXCEPT !.elapsed = @ + POLL_INTERVAL])

\* The loop that stops on completed only.
PollStepStopsOnCompleted(o, loc, resp) ==
  IF ~resp.ok THEN AfterPoll(o, loc, PollError(resp.http))
  ELSE IF resp.body.t # "json" THEN Throw(o)
  ELSE IF resp.body.json.status = "completed"
  THEN AfterPoll(o, loc, resp.body.json)
  ELSE PollLoop(o, [loc EXCEPT !.elapsed = @ + POLL_INTERVAL])

\* pollJobStatus from the response to a status request on; loc.elapsed
\* already counts the time the request took.
PollStep(o, loc, resp) ==
  IF ~resp.ok THEN AfterPoll(o, loc, PollError(resp.http))
  ELSE IF resp.body.t # "json" THEN Throw(o)
  ELSE IF resp.body.json.status \in TerminalStatuses
  THEN AfterPoll(o, loc, resp.body.json)
  ELSE PollLoop(o, [loc EXCEPT !.elapsed = @ + POLL_INTERVAL])

\* The response to a status request of pollJobStatus arrives.
PollResponse ==
  /\ pc = "poll"
  /\ \E resp \in StatusResponses, latency \in Latencies :
       Take(PollStep(out, [local EXCEPT !.elapsed = @ + latency], resp),
            resp)

\* fetchArtifactsAndBuild from the response to its index request on.
IndexStep(o, loc, resp) ==
  IF ~resp.ok
  THEN AfterArtifacts(o, loc,
         [EmptyResult EXCEPT
            !.error = "Artifacts fetch failed: HTTP " \o ToString(resp.http)])
  ELSE IF resp.body.t # "json" THEN Throw(o)
  ELSE LET data == resp.body.json
       IN NextDownload(o, [loc EXCEPT
                             !.plan = DownloadPlan(data.artifacts, loc.include),
                             !.k = 1,
                             !.result = IndexResult(data)])

\* The response to the artifact index request arrives.
IndexResponse ==
  /\ pc = "index"
  /\ \E resp \in IndexResponses :
       Take(IndexStep(out, local, resp), resp)

\* The bodies a download of each kind may bring.
DownloadsFor(phase) ==
  IF phase = "screenshots" THEN ImageDownloads
  ELSE IF phase = "console" THEN JsonDownloads({Console10})
  ELSE IF phase = "result" THEN JsonDownloads({ResultJson})
  ELSE JsonDownloads({HarOverCap})

\* The response to the download awaited arrives, or the download fails.
DownloadResponse ==
  /\ pc = "download"
  /\ LET f == local.plan[local.k]
     IN \E d \in DownloadsFor(f.phase) :
          Take(NextDownload(out, [local EXCEPT
                                    !.result = Downloaded(@, f, d),
                                    !.k = @ + 1]),
               d)

(***************************************************************************)
(* riddle_poll: one status request, no loop.                               *)
(***************************************************************************)
\* riddle_poll that returns a failed job without its artifacts.
PollToolStepSkipsFailed(loc, resp) ==
  IF ~resp.ok
  THEN Return([EmptyResult EXCEPT !.ok = FALSE, !.job_id = loc.jobId,
                                  !.error = "HTTP " \o ToString(resp.http)])
  ELSE IF resp.body.t # "json" THEN Throw(EmptyResult)
  ELSE LET data == resp.body.json
       IN IF data.status \notin TerminalStatuses
          THEN Return([EmptyResult EXCEPT !.job_id = loc.jobId, !.status = data.status])
          ELSE IF data.status = "failed"
          THEN Return([EmptyResult EXCEPT !.ok = FALSE, !.job_id = loc.jobId,
                                          !.status = data.status])
          ELSE FetchArtifacts(EmptyResult, [loc EXCEPT !.jobStatus = data])

\* riddle_poll from the response to its status request on.
PollToolStep(loc, resp) ==
  IF ~resp.ok
  THEN Return([EmptyResult EXCEPT !.ok = FALSE, !.job_id = loc.jobId,
                                  !.error = "HTTP " \o ToString(resp.http)])
  ELSE IF resp.body.t # "json" THEN Throw(EmptyResult)
  ELSE LET data == resp.body.json
       IN IF data.status \notin TerminalStatuses
          THEN Return([EmptyResult EXCEPT !.job_id = loc.jobId, !.status = data.status])
          ELSE FetchArtifacts(EmptyResult, [loc EXCEPT !.jobStatus = data])

\* riddle_poll up to the await of its status request.
PollToolStart ==
  /\ pc = "start"
  /\ tool = "riddle_poll"
  /\ Take(IF params.job_id = NoJob THEN Throw(EmptyResult)
          ELSE Guarded(Step("poll_tool", EmptyResult,
                            << StatusRequest(cfg.baseUrl, params.job_id) >>, <<>>,
                            [Local0 EXCEPT
                               !.via = "riddle_poll", !.jobId = params.job_id,
                               !.include = IF params.include = <<>>
                                           THEN PollDefaultInclude
                                           ELSE params.include])),
          NoAnswer)

\* The response to riddle_poll's status request arrives.
PollToolResponse ==
  /\ pc = "poll_tool"
  /\ \E resp \in StatusResponses :
       Take(PollToolStep(local, resp), resp)

(***************************************************************************)
(* riddle_preview, riddle_preview_delete and riddle_server_preview.  The   *)
(* text these tools return is kept as ok, job_id (the preview or job id),  *)
(* status and error of a RunResult.                                        *)
(***************************************************************************)
\* The responses of the endpoints these tools call: res.ok, res.status and
\* the body, of which only a create response's id (job_id for a server
\* preview) and upload_url are read.
CreateResponses ==
  { StatusResponse(FALSE, 500, HtmlBody), StatusResponse(TRUE, 200, HtmlBody),
    StatusResponse(TRUE, 200,
      JsonBody([id |-> Preview1,
                upload_url |-> << "https:", "//", "riddle-previews.s3.amazonaws.com",
                                  "/", "upload", "?", "sig=abc" >>])) }

PreviewRequest(kind, method, path) ==
  Request(kind, method, Endpoint(cfg.baseUrl, path), TRUE)

\* fetch(created.upload_url, { method: "PUT", ... }): no Authorization
UploadRequest(url) == Request("upload", "PUT", url, FALSE)

\* `/tmp/riddle-preview-${id}.tar.gz`, written by tar
Tarball(prefix, id) ==
  FileWrite(join(<< "tmp" >>, << prefix >> \o id \o << ".tar.gz" >>),
            [t |-> "tarball", nbytes |-> 0])

Failed(o, error) == Return([o EXCEPT !.ok = FALSE, !.error = error])

\* The directory checks of riddle_preview and riddle_server_preview, then
\* step.
WithDirectory(step) ==
  IF params.directory = "" THEN Throw(EmptyResult)
  ELSE IF ~IsDirectory(params.directory)
  THEN Failed(EmptyResult, "Cannot access directory")
  ELSE step

\* riddle_preview up to the await of the create request.
PreviewStart ==
  /\ pc = "start"
  /\ tool = "riddle_preview"
  /\ Take(Guarded(WithDirectory(
            Step("preview_create", EmptyResult,
                 << PreviewRequest("create", "POST", << "/", "v1", "/", "preview" >>) >>,
                 <<>>, Local0))),
          NoAnswer)

\* From the response to the create request on: the tarball is written and
\* uploaded.
CreatedStep(o, resp, prefix) ==
  IF ~resp.ok THEN Failed(o, "Create failed: HTTP " \o ToString(resp.http))
  ELSE IF resp.body.t # "json" THEN Throw(o)
  ELSE LET created == resp.body.json
       IN Step("upload", [o EXCEPT !.job_id = created.id],
               << UploadRequest(created.upload_url) >>,
               << Tarball(prefix, created.id) >>,
               [Local0 EXCEPT !.jobId = created.id])

PreviewCreateResponse ==
  /\ pc = "preview_create"
  /\ \E resp \in CreateResponses :
       Take(CreatedStep(out, resp, "riddle-preview-"), resp)

\* From the response to the upload on: the tarball is removed, and the
\* preview is published or the server preview started.
UploadedStep(o, loc, resp) ==
  IF ~resp.ok THEN Failed(o, "Upload failed: HTTP " \o ToString(resp.http))
  ELSE IF tool = "riddle_preview"
  THEN Step("preview_publish", o,
            << PreviewRequest("publish", "POST",
                              << "/", "v1", "/", "preview", "/" >> \o loc.jobId
                              \o << "/", "publish" >>) >>,
            <<>>, loc)
  ELSE Step("sp_start", o,
            << PreviewRequest("start", "POST",
                              << "/", "v1", "/", "server-preview", "/" >> \o loc.jobId
                              \o << "/", "start" >>) >>,
            <<>>, loc)

UploadResponse ==
  /\ pc = "upload"
  /\ \E resp \in {StatusResponse(FALSE, 403, HtmlBody), StatusResponse(TRUE, 200, HtmlBody)} :
       Take(UploadedStep(out, local, resp), resp)

\* The last response of riddle_preview (publish) and the only one of
\* riddle_preview_delete: ok:true with the parsed body, or ok:false.
LastStep(o, resp, what) ==
  IF ~resp.ok THEN Failed(o, what \o " failed: HTTP " \o ToString(resp.http))
  ELSE IF resp.body.t # "json" THEN Throw(o)
  ELSE Return(o)

PreviewPublishResponse ==
  /\ pc = "preview_publish"
  /\ \E resp \in CreateResponses : Take(LastStep(out, resp, "Publish"), resp)

\* riddle_preview_delete up to the await of its request.
PreviewDeleteStart ==
  /\ pc = "start"
  /\ tool = "riddle_preview_delete"
  /\ Take(Guarded(Step("preview_delete", EmptyResult,
                       << PreviewRequest("delete", "DELETE",
                                         << "/", "v1", "/", "preview", "/" >>
                                         \o params.job_id) >>,
                       <<>>, Local0)),
          NoAnswer)

PreviewDeleteResponse ==
  /\ pc = "preview_delete"
  /\ \E resp \in CreateResponses : Take(LastStep(out, resp, "Delete"), resp)

\* The body of the server preview's status endpoint.
OutputsData(status, error, outputs) ==
  [status |-> status, error |-> error, outputs |-> outputs]

OutputLists ==
  { <<>>,
    << Artifact(<< "final", ".png" >>, Cdn("final.png")) >>,
    << Artifact(<< "server", ".log" >>, NoUrl),
       Artifact(<< "..", "/", "..", "/", "..", "/", "shot", ".png" >>, Cdn("final.png")) >> }

OutputsResponses ==
  { StatusResponse(FALSE, 500, HtmlBody),
    StatusResponse(TRUE, 200, JsonBody(OutputsData("running", NoError, <<>>))),
    StatusResponse(TRUE, 200, JsonBody(OutputsData("failed", "exit 1", <<>>))) }
  \cup { StatusResponse(TRUE, 200, JsonBody(OutputsData("completed", NoError, outputs))) :
           outputs \in OutputLists }

SP_POLL_INTERVAL == 3000

\* ((params.timeout || 120) + 60) * 1000
SpTimeoutMs ==
  ((IF params.timeout = NoNumber \/ params.timeout = 0 THEN 120 ELSE params.timeout) + 60)
  * 1000

SpCreateRequest ==
  PreviewRequest("create", "POST", << "/", "v1", "/", "server-preview" >>)

\* riddle_server_preview up to its first await of a response: the env
\* request when sensitive_env or localStorage is given, else the create
\* request.
ServerPreviewStart ==
  /\ pc = "start"
  /\ tool = "riddle_server_preview"
  /\ Take(Guarded(WithDirectory(
            IF params.sensitive
            THEN Step("sp_env", EmptyResult,
                      << PreviewRequest("env", "POST",
                                        << "/", "v1", "/", "server-preview", "/", "env" >>) >>,
                      <<>>, Local0)
            ELSE Step("sp_create", EmptyResult, << SpCreateRequest >>, <<>>, Local0))),
          NoAnswer)

ServerPreviewEnvResponse ==
  /\ pc = "sp_env"
  /\ \E resp \in CreateResponses :
       Take(IF ~resp.ok
            THEN Failed(out, "Store env failed: HTTP " \o ToString(resp.http))
            ELSE IF resp.body.t # "json" THEN Throw(out)
            ELSE Step("sp_create", out, << SpCreateRequest >>, <<>>, Local0),
            resp)

ServerPreviewCreateResponse ==
  /\ pc = "sp_create"
  /\ \E resp \in CreateResponses :
       Take(CreatedStep(out, resp, "riddle-sp-"), resp)

\* The poll loop of riddle_server_preview at its condition.
SpPollLoop(o, loc) ==
  IF loc.elapsed < SpTimeoutMs
  THEN Step("sp_poll", o,
            << Request("status", "GET",
                       Endpoint(cfg.baseUrl,
                                << "/", "v1", "/", "server-preview", "/" >> \o loc.jobId),
                       TRUE) >>,
            <<>>, loc)
  ELSE Failed(o, "Job did not complete within " \o ToString(SpTimeoutMs \div 1000) \o "s")

ServerPreviewStartResponse ==
  /\ pc = "sp_start"
  /\ \E resp \in {StatusResponse(FALSE, 500, HtmlBody), StatusResponse(TRUE, 200, HtmlBody)} :
       Take(IF ~resp.ok
            THEN Failed(out, "Start failed: HTTP " \o ToString(resp.http))
            ELSE SpPollLoop(out, [local EXCEPT !.elapsed = 0]),
            resp)

\* The downloads of the image outputs, in order, then the return.
SpNextDownload(o, loc) ==
  IF loc.k <= Len(loc.plan)
  THEN Step("sp_download", o, << DownloadRequest(loc.plan[loc.k].url) >>, <<>>, loc)
  ELSE Return(o)

SpPollStep(o, loc, resp) ==
  IF ~resp.ok THEN Failed(o, "Poll failed: HTTP " \o ToString(resp.http))
  ELSE IF resp.body.t # "json" THEN Throw(o)
  ELSE LET data == resp.body.json
       IN IF data.status \in {"complete", "completed", "failed"}
          THEN LET shots == SelectSeq(Screenshots(data.outputs), HasUrl)
               IN SpNextDownload(
                    [o EXCEPT !.ok = data.status \in {"complete", "completed"},
                              !.status = data.status,
                              !.error = data.error],
                    [loc EXCEPT !.plan = [i \in 1..Len(shots) |-> Fetch("outputs", shots[i])],
                                !.k = 1])
          ELSE SpPollLoop(o, [loc EXCEPT !.elapsed = @ + SP_POLL_INTERVAL])

ServerPreviewPollResponse ==
  /\ pc = "sp_poll"
  /\ \E resp \in OutputsResponses, latency \in Latencies :
       Take(SpPollStep(out, [local EXCEPT !.elapsed = @ + latency], resp),
            resp)

\* The response to the download of an image output arrives: it is written
\* with writeArtifactBinary(workspace, "screenshots",
\* `${created.job_id}-${output.name}`, base64).
ServerPreviewDownloadResponse ==
  /\ pc = "sp_download"
  /\ LET f == local.plan[local.k]
         next == SpNextDownload(out, [local EXCEPT !.k = @ + 1])
         saved(d) ==
           IF d.outcome = "ok"
           THEN << writeArtifactBinary(Workspace, "screenshots",
                                       local.jobId \o << "-" >> \o f.name,
                                       Base64Encode(d.body.bytes)).write >>
           ELSE <<>>
     IN \E d \in ImageDownloads :
          Take([next EXCEPT !.writes = saved(d) \o @], d)

(***************************************************************************)
(* One execution of a tool, from any configuration.                        *)
(***************************************************************************)
Init ==
  /\ tool \in DOMAIN ToolParams
  /\ \E envKey \in ApiKeys, cfgKey \in ApiKeys, baseUrl \in BaseUrls :
       cfg = getCfg(envKey, [apiKey |-> cfgKey, baseUrl |-> baseUrl])
  /\ params \in ToolParams[tool]
  /\ cfg.baseUrl = DefaultBaseUrl \/ params = FirstParams[tool]
  /\ pc = "start"
  /\ out = EmptyResult
  /\ reqs = <<>>
  /\ files = <<>>
  /\ local = Local0

Next ==
  \/ RunStart
  \/ RunPostResponse
  \/ PollResponse
  \/ IndexResponse
  \/ DownloadResponse
  \/ PollToolStart
  \/ PollToolResponse
  \/ PreviewStart
  \/ PreviewCreateResponse
  \/ UploadResponse
  \/ PreviewPublishResponse
  \/ PreviewDeleteStart
  \/ PreviewDeleteResponse
  \/ ServerPreviewStart
  \/ ServerPreviewEnvResponse
  \/ ServerPreviewCreateResponse
  \/ ServerPreviewStartResponse
  \/ ServerPreviewPollResponse
  \/ ServerPreviewDownloadResponse

Spec == Init /\ [][Next]_vars

(***************************************************************************)
(* detectMode alone, on every payload whose four mode fields are drawn     *)
(* from the JavaScript values above.                                       *)
(***************************************************************************)
JsValues ==
  { Absent, JsVal("null", 0), JsVal("string", 0), JsStr, JsVal("number", 0),
    JsVal("boolean", 0), JsVal("array", 0), JsArr }

InitMode ==
  /\ tool = "detectMode"
  /\ cfg = getCfg("", [apiKey |-> "", baseUrl |-> <<>>])
  /\ \E url \in JsValues, urls \in JsValues, steps \in JsValues, script \in JsValues :
       params = Params(Payload(url, urls, steps, script, <<>>, FALSE, NoNumber),
                       FALSE, NoJob, <<>>, FALSE)
  /\ pc = "start"
  /\ out = EmptyResult
  /\ reqs = <<>>
  /\ files = <<>>
  /\ local = Local0

DetectMode ==
  /\ pc = "start"
  /\ tool = "detectMode"
  /\ Take(Return([EmptyResult EXCEPT !.mode = detectMode(params.payload)]), NoAnswer)

NextMode == DetectMode

SpecMode == InitMode /\ [][NextMode]_vars

(***************************************************************************)
(* applySafetySpec alone, applied to a result and then once more to what   *)
(* it returned.  local.result holds the result the last application was    *)
(* given and local.k the number of files written before it.                *)
(***************************************************************************)
InitSpool ==
  /\ tool = "applySafetySpec"
  /\ cfg = getCfg("", [apiKey |-> "", baseUrl |-> <<>>])
  /\ \E harInline \in BOOLEAN :
       params = Params(NoPayload, FALSE, NoJob, <<>>, harInline)
  /\ pc = "start"
  /\ \E job_id \in {NoJob, Job1},
        screenshot \in ScreenshotValues \cup {NullValue},
        screenshots \in ScreenshotLists \cup
          { NullValue,
            ImgList(<< ImgObj(FALSE, <<>>, Cdn("late.png")),
                       ImgStr(PngDataUrlPrefix \o Base64Encode(PngBytes)) >>) },
        rawPngBase64 \in {NoValue, ImgStr(Base64Encode(JpegBytes))},
        har \in {NoValue, NullValue, HarSmall, HarAtCap, HarOverCap},
        console \in {NoValue, NullValue, Console10, ConsoleAtCap, ConsoleOverCap} :
       out = [EmptyResult EXCEPT
                !.mode = "url", !.job_id = job_id, !.status = "completed",
                !.duration_ms = 1500, !.result = ResultJson,
                !.screenshot = screenshot, !.screenshots = screenshots,
                !.rawPngBase64 = rawPngBase64, !.har = har, !.console = console]
  /\ reqs = <<>>
  /\ files = <<>>
  /\ local = Local0

\* await applySafetySpec(result, { workspace, harInline })
ApplySafetySpec ==
  /\ tool = "applySafetySpec"
  /\ pc \in {"start", "spooled"}
  /\ LET st == applySafetySpec(out, [workspace |-> Workspace,
                                     harInline |-> params.harInline])
     IN /\ pc' = (IF pc = "start" THEN "spooled" ELSE "respooled")
        /\ out' = st.result
        /\ files' = files \o st.writes
        /\ local' = [local EXCEPT !.result = out, !.k = Len(files)]
  /\ UNCHANGED << tool, cfg, params, reqs >>

NextSpool == ApplySafetySpec

SpecSpool == InitSpool /\ [][NextSpool]_vars

(***************************************************************************)
(* Invocations of riddle_run that share one workspace.  Each has sent its  *)
(* request and awaits the response; the continuation that receives it runs *)
(* up to the first await of applySafetySpec, every mkdir and writeFile of   *)
(* the spooler is an await at which the other invocations may run, and the *)
(* invocation returns after its last write.  pc, out and local are kept    *)
(* per invocation: local[i].writes are the writes of invocation i in the   *)
(* order the spooler makes them, local[i].k how many of them are done and  *)
(* local[i].result the result it will return.  A writeFile is taken as one *)
(* step, the whole file at once.  The service gives each job its own id,   *)
(* so the job id of invocation i, when the response has one, is JobOf(i).  *)
(***************************************************************************)
MaxInvocations == 2

Invocations == 1..MaxInvocations

JobOf(i) == << "job_" \o ToString(i) >>

\* The synchronous responses invocation i may receive: a raw image, with or
\* without the x-job-id header, and a JSON body with a screenshot and a HAR
\* of its own, with or without job_id.
SharedResponses(i) ==
  { PostResponse(200, "image/png", ImageBody(bytes), job, 1500) :
      bytes \in {PngBytes, JpegBytes}, job \in {NoJob, JobOf(i)} }
  \cup
  { Plain(200, "application/json",
          JsonBody(Json(job, FALSE, "completed", ImgStr(Base64Encode(bytes)),
                        NoValue, NoValue,
                        Text("json", "har-" \o ToString(i), INLINE_CAP, INLINE_CAP + 1),
                        NoError))) :
      bytes \in {PngBytes, JpegBytes}, job \in {NoJob, JobOf(i)} }

InitShared ==
  /\ tool = "riddle_run"
  /\ cfg = getCfg("rk_live", [apiKey |-> "", baseUrl |-> <<>>])
  /\ params = FirstParams["riddle_run"]
  /\ pc = [i \in Invocations |-> "run_post"]
  /\ out = [i \in Invocations |-> EmptyResult]
  /\ reqs = <<>>
  /\ files = <<>>
  /\ local = [i \in Invocations |-> [result |-> EmptyResult, writes |-> <<>>, k |-> 0]]

\* The response to POST /v1/run of invocation i arrives: runWithDefaults
\* builds the result and enters applySafetySpec.
InvocationResponse(i) ==
  /\ pc[i] = "run_post"
  /\ \E resp \in SharedResponses(i) :
       LET step == Classify([EmptyResult EXCEPT
                               !.mode = detectMode(params.payload),
                               !.rawContentType = resp.contentType], resp)
       IN local' = [local EXCEPT ![i] = [result |-> step.out,
                                         writes |-> step.writes, k |-> 0]]
  /\ pc' = [pc EXCEPT ![i] = "spooling"]
  /\ UNCHANGED << tool, cfg, params, out, reqs, files >>

\* await writeFile(filePath, buf) of invocation i
InvocationWrite(i) ==
  /\ pc[i] = "spooling"
  /\ local[i].k < Len(local[i].writes)
  /\ files' = Append(files, local[i].writes[local[i].k + 1])
  /\ local' = [local EXCEPT ![i].k = @ + 1]
  /\ UNCHANGED << tool, cfg, params, pc, out, reqs >>

\* applySafetySpec of invocation i is through; return out
InvocationReturn(i) ==
  /\ pc[i] = "spooling"
  /\ local[i].k = Len(local[i].writes)
  /\ pc' = [pc EXCEPT ![i] = "done"]
  /\ out' = [out EXCEPT ![i] = local[i].result]
  /\ UNCHANGED << tool, cfg, params, reqs, files, local >>

NextShared ==
  \E i \in Invocations :
    \/ InvocationResponse(i)
    \/ InvocationWrite(i)
    \/ InvocationReturn(i)

SpecShared == InitShared /\ [][NextShared]_vars

(***************************************************************************)
(* The MCP server (riddle-mcp/src/server.ts): one call of the CallTool      *)
(* handler.  tool is the name called and params its arguments; out is the  *)
(* response, whose text is kept as the value that JSON.stringify is given;  *)
(* reqs are the requests of the client call in progress (of the current    *)
(* URL, for riddle_batch_screenshot); files are the files saveToTmp wrote.  *)
(* local: via, the client method in progress; u, the place of the current  *)
(* URL in urls, and results, the entries pushed so far                     *)
(* (riddle_batch_screenshot); i, the loop variable of waitForJob, and      *)
(* slept, the milliseconds it has slept; jobId; artifacts, the index, k,   *)
(* the place in it of the artifact being downloaded, and got, the results  *)
(* of runScriptSync so far; consoleLogs and networkHar, whether the parsed *)
(* artifact has entries; now, Date.now() in the continuation that runs.    *)
(***************************************************************************)
RIDDLE_API == DefaultBaseUrl

maxAttempts == 30

intervalMs == 2000

McpTools ==
  {"riddle_screenshot", "riddle_batch_screenshot", "riddle_automate",
   "riddle_click_and_screenshot", "riddle_nonesuch"}

UrlA == "https://a.example/"

UrlB == "https://b.example/"

\* timeout_sec is NoNumber when the argument is missing.
McpArgs(urls, timeout_sec) == [urls |-> urls, timeout_sec |-> timeout_sec]

McpParams ==
  [name \in McpTools |->
     IF name = "riddle_batch_screenshot"
     THEN { McpArgs(urls, NoNumber) : urls \in {<<>>, << UrlA >>, << UrlA, UrlB >>} }
     ELSE IF name = "riddle_automate"
     THEN { McpArgs(<< UrlA >>, t) : t \in {NoNumber, 5, 300} }
     ELSE { McpArgs(<< UrlA >>, NoNumber) }]

\* What Date.now() may return.
McpClock == {1000, 1001}

ClickPngBytes == << 137, 80, 78, 71, 13 >>

ConsoleData == Text("json", "consoleData", 300, 300)

NetworkHarData == Text("json", "networkHar", 900, 900)

\* The answers to POST /v1/run, to GET /v1/jobs/{id}, to
\* GET /v1/jobs/{id}/artifacts and to the download of an artifact.
McpPostResponses(via) ==
  IF via = "screenshotSync"
  THEN { Plain(200, "image/png", ImageBody(PngBytes)),
         Plain(408, "application/json", JsonBody(JobJson(Job1, FALSE))),
         Plain(408, "application/json", JsonBody(JobJson(NoJob, FALSE))),
         Plain(408, "text/html", HtmlBody),
         Plain(500, "text/html", HtmlBody) }
  ELSE { Plain(202, "application/json", JsonBody(JobJson(Job1, TRUE))),
         Plain(200, "application/json", JsonBody(JobJson(NoJob, FALSE))),
         Plain(200, "text/html", HtmlBody),
         Plain(500, "text/html", HtmlBody) }

McpJobResponses ==
  { StatusResponse(TRUE, 200, JsonBody(StatusData(st, NoError, NoNumber, NoNumber))) :
      st \in {"running", "completed", "complete"} }
  \cup { StatusResponse(TRUE, 200, JsonBody(StatusData("failed", e, NoNumber, NoNumber))) :
           e \in {"boom", NoError} }
  \cup { StatusResponse(FALSE, 502, HtmlBody) }

McpArtifactLists ==
  { <<>>,
    << Artifact(<< "late", ".png" >>, NoUrl) >>,
    << Artifact(<< "page", ".JPG" >>, Cdn("page.JPG")) >>,
    << Artifact(<< "screenshot", ".png" >>, Cdn("screenshot.png")) >>,
    << Artifact(<< "console", ".json" >>, Cdn("console.json")),
       Artifact(<< "screenshot", ".png" >>, Cdn("screenshot.png")) >>,
    << Artifact(<< "screenshot", ".png" >>, Cdn("screenshot.png")),
       Artifact(<< "after-click", ".png" >>, Cdn("after-click.png")) >>,
    << Artifact(<< "after-click", ".png" >>, Cdn("after-click.png")),
       Artifact(<< "network", ".har" >>, Cdn("network.har")) >> }

McpArtifactsResponses ==
  { StatusResponse(TRUE, 200, JsonBody(IndexData(a, NoStatus, NoNumber, NoError))) :
      a \in McpArtifactLists }
  \cup { StatusResponse(FALSE, 502, HtmlBody) }

McpDownloads(url) ==
  IF url = Cdn("console.json")
  THEN { Download("ok", JsonBody(ConsoleData)), Download("ok", HtmlBody) }
  ELSE IF url = Cdn("network.har")
  THEN { Download("ok", JsonBody(NetworkHarData)) }
  ELSE IF url = Cdn("page.JPG")
  THEN { Download("ok", ImageBody(JpegBytes)) }
  ELSE IF url = Cdn("after-click.png")
  THEN { Download("ok", ImageBody(ClickPngBytes)), Download("http_error", HtmlBody) }
  ELSE { Download("ok", ImageBody(PngBytes)), Download("http_error", HtmlBody),
         Download("network_error", HtmlBody) }

\* saveToTmp(buffer, name, ext): `/tmp/riddle-${name}-${Date.now()}.${ext}`
saveToTmp(buffer, name, ext, now) ==
  LET filename == << "/", "tmp", "/",
                     "riddle-" \o name \o "-" \o ToString(now) \o "." \o ext >>
  IN [write |-> FileWrite(filename, buffer), path |-> filename]

McpResponse(isError, text) == [isError |-> isError, text |-> text]

McpNoResponse == McpResponse(FALSE, [t |-> "none"])

McpLocal0 ==
  [via |-> "", u |-> 1, results |-> <<>>, i |-> 0, slept |-> 0, jobId |-> NoJob,
   artifacts |-> <<>>, k |-> 0, got |-> <<>>, consoleLogs |-> FALSE,
   networkHar |-> FALSE, now |-> 0]

\* return { content: [{ type: "text", text: JSON.stringify(value) }] }
McpReturn(loc, value) == Step("done", McpResponse(FALSE, value), <<>>, <<>>, loc)

\* The handler without its catch: the error leaves it.
McpCatchRaises(loc, message) == Step("threw", McpNoResponse, <<>>, <<>>, loc)

\* The catch of the handler.
McpCatch(loc, message) ==
  Step("done", McpResponse(TRUE, [t |-> "text", text |-> "Error: " \o message]),
       <<>>, <<>>, loc)

McpRunRequest(body) == PostRunRequest(RIDDLE_API, body)

\* client.screenshotSync(url, viewport) up to its fetch
ScreenshotRequest(loc) ==
  Step("mcp_post", McpNoResponse,
       << McpRunRequest([url |-> params.urls[loc.u]]) >>, <<>>,
       [loc EXCEPT !.via = "screenshotSync"])

\* The loop of riddle_batch_screenshot at the URL loc.u, and its return.
BatchNext(loc) ==
  IF loc.u <= Len(params.urls)
  THEN ScreenshotRequest(loc)
  ELSE McpReturn(loc, [t |-> "batch", results |-> loc.results])

BatchResult(url, success, screenshot, error) ==
  [url |-> url, success |-> success, screenshot |-> screenshot, error |-> error]

\* The handler that lets the error of a URL end the batch.
McpThrowEndsBatch(loc, message) == McpCatch(loc, message)

\* An Error thrown while the tool runs: the loop of
\* riddle_batch_screenshot catches it and goes on with the next URL, and
\* elsewhere the handler's catch answers.
McpThrow(loc, message) ==
  IF tool = "riddle_batch_screenshot"
  THEN BatchNext([loc EXCEPT
                    !.results = Append(@, BatchResult(params.urls[loc.u], FALSE,
                                                      <<>>, message)),
                    !.u = @ + 1])
  ELSE McpCatch(loc, message)

\* The handler that answers with the image inline.
ScreenshotTakenInline(loc, bytes) ==
  LET base64 == Base64Encode(bytes)
  IN IF tool = "riddle_batch_screenshot"
     THEN BatchNext([loc EXCEPT
                       !.results = Append(@, BatchResult(params.urls[loc.u], TRUE,
                                                         base64, "")),
                       !.u = @ + 1])
     ELSE McpReturn(loc, [t |-> "screenshot", screenshot |-> base64,
                          url |-> params.urls[1]])

\* screenshotSync returned the image as base64: the handler decodes it,
\* saves it and answers with the path.
ScreenshotTaken(loc, bytes) ==
  LET base64 == Base64Encode(bytes)
      buffer == BinaryFile(Base64Decode(base64))
  IN IF tool = "riddle_batch_screenshot"
     THEN LET saved == saveToTmp(buffer, "batch-" \o ToString(Len(loc.results)),
                                 "png", loc.now)
              next == BatchNext([loc EXCEPT
                                   !.results = Append(@, BatchResult(params.urls[loc.u],
                                                                     TRUE, saved.path, "")),
                                   !.u = @ + 1])
          IN [next EXCEPT !.writes = << saved.write >> \o @]
     ELSE LET saved == saveToTmp(buffer, "screenshot", "png", loc.now)
          IN Step("done",
                  McpResponse(FALSE, [t |-> "screenshot", screenshot |-> saved.path,
                                      url |-> params.urls[1]]),
                  <<>>, << saved.write >>, loc)

\* waitForJob(jobId) up to its first getJob
waitForJob(loc, jobId) ==
  Step("mcp_job", McpNoResponse, << StatusRequest(RIDDLE_API, jobId) >>, <<>>,
       [loc EXCEPT !.jobId = jobId, !.i = 0, !.slept = 0])

\* getArtifacts(jobId)
McpArtifactsRequest(jobId) ==
  Request("artifacts", "GET",
          Endpoint(RIDDLE_API, << "/", "v1", "/", "jobs", "/" >> \o jobId
                               \o << "/", "artifacts" >>),
          TRUE)

\* response.json() rejects
JsonSyntaxError == "Unexpected token < in JSON at position 0"

\* The loop whose bound follows the timeout_sec of the tool call.
WaitStepByTimeout(loc, resp) ==
  LET attempts == IF params.timeout_sec = NoNumber THEN maxAttempts
                  ELSE (params.timeout_sec * 1000) \div intervalMs
  IN IF resp.body.t # "json" THEN McpThrow(loc, JsonSyntaxError)
     ELSE LET job == resp.body.json
          IN IF job.status \in {"completed", "complete"}
             THEN Step("mcp_artifacts", McpNoResponse,
                       << McpArtifactsRequest(loc.jobId) >>, <<>>, loc)
             ELSE IF job.status = "failed"
             THEN McpThrow(loc, "Job failed: "
                                \o (IF job.error # NoError THEN job.error
                                    ELSE "Unknown error"))
             ELSE LET next == [loc EXCEPT !.i = @ + 1, !.slept = @ + intervalMs]
                  IN IF next.i < attempts
                     THEN Step("mcp_job", McpNoResponse,
                               << StatusRequest(RIDDLE_API, loc.jobId) >>, <<>>, next)
                     ELSE McpThrow(next, "Job timed out")

\* waitForJob from the answer to getJob on: return, throw, or sleep and
\* ask again; after the return the caller requests the artifacts.
WaitStep(loc, resp) ==
  IF resp.body.t # "json" THEN McpThrow(loc, JsonSyntaxError)
  ELSE LET job == resp.body.json
       IN IF job.status \in {"completed", "complete"}
          THEN Step("mcp_artifacts", McpNoResponse,
                    << McpArtifactsRequest(loc.jobId) >>, <<>>, loc)
          ELSE IF job.status = "failed"
          THEN McpThrow(loc, "Job failed: "
                             \o (IF job.error # NoError THEN job.error
                                 ELSE "Unknown error"))
          ELSE LET next == [loc EXCEPT !.i = @ + 1, !.slept = @ + intervalMs]
               IN IF next.i < maxAttempts
                  THEN Step("mcp_job", McpNoResponse,
                            << StatusRequest(RIDDLE_API, loc.jobId) >>, <<>>, next)
                  ELSE McpThrow(next, "Job timed out")

\* a.name?.endsWith(".png")
EndsWithPng(a) == a.name # <<>> /\ a.name[Len(a.name)] = ".png"

\* artifact.name?.replace(".png", "") || "artifact"
SaveName(name) == IF Len(name) > 1 THEN name[1] ELSE "artifact"

\* The end of riddle_automate and of riddle_click_and_screenshot, from the
\* return of runScriptSync on.
ScriptToolTail(loc) ==
  LET images == SelectSeq(loc.got, LAMBDA g : g.type = "image")
      name(g) == IF tool = "riddle_automate" THEN SaveName(g.name) ELSE "click-result"
      saved == [n \in 1..Len(images) |->
                  saveToTmp(BinaryFile(images[n].body.bytes), name(images[n]),
                            "png", loc.now)]
      log == saveToTmp(TextFile(ConsoleData), "console", "json", loc.now)
      har == saveToTmp(TextFile(NetworkHarData), "network", "har", loc.now)
      paths == [n \in 1..Len(images) |-> saved[n].path]
  IN IF tool = "riddle_automate"
     THEN Step("done",
               McpResponse(FALSE,
                 [t |-> "automate", job_id |-> loc.jobId, screenshots |-> paths,
                  console |-> IF loc.consoleLogs THEN log.path ELSE <<>>,
                  har |-> IF loc.networkHar THEN har.path ELSE <<>>]),
               <<>>,
               [n \in 1..Len(images) |-> saved[n].write]
                 \o (IF loc.consoleLogs THEN << log.write >> ELSE <<>>)
                 \o (IF loc.networkHar THEN << har.write >> ELSE <<>>),
               loc)
     ELSE Step("done",
               McpResponse(FALSE,
                 [t |-> "click", job_id |-> loc.jobId,
                  screenshot |-> IF paths = <<>> THEN <<>> ELSE paths[Len(paths)]]),
               <<>>, [n \in 1..Len(images) |-> saved[n].write], loc)

\* The loop of runScriptSync over the index from the entry loc.k on: the
\* next entry that has a url is downloaded, and after the last the method
\* returns.
McpNextDownload(loc) ==
  LET rest == {j \in loc.k..Len(loc.artifacts) : loc.artifacts[j].url # NoUrl}
  IN IF rest = {} THEN ScriptToolTail(loc)
     ELSE LET j == CHOOSE m \in rest : \A n \in rest : m <= n
          IN Step("mcp_download", McpNoResponse,
                  << DownloadRequest(loc.artifacts[j].url) >>, <<>>,
                  [loc EXCEPT !.k = j])

\* screenshotSync from the answer to its POST on.
ScreenshotPosted(loc, resp) ==
  IF resp.status \in 200..299 THEN ScreenshotTaken(loc, resp.body.bytes)
  ELSE IF resp.status = 408
  THEN LET jobId == IF resp.body.t = "json" THEN resp.body.json.job_id ELSE NoJob
       IN IF jobId = NoJob
          THEN McpThrow(loc, "API error: " \o ToString(resp.status))
          ELSE waitForJob(loc, jobId)
  ELSE McpThrow(loc, "API error: " \o ToString(resp.status) \o ": <html>")

\* runScriptSync from the answer to its POST on.
ScriptPosted(loc, resp) ==
  IF resp.status \notin 200..299
  THEN McpThrow(loc, "API error " \o ToString(resp.status) \o ": <html>")
  ELSE IF resp.body.t # "json" THEN McpThrow(loc, JsonSyntaxError)
  ELSE IF resp.body.json.job_id = NoJob THEN McpThrow(loc, "No job_id returned")
  ELSE waitForJob(loc, resp.body.json.job_id)

\* getArtifacts answered.
ArtifactsListed(loc, resp) ==
  IF resp.body.t # "json" THEN McpThrow(loc, JsonSyntaxError)
  ELSE LET artifacts == resp.body.json.artifacts
           pngs == SelectSeq(artifacts, EndsWithPng)
       IN IF loc.via = "screenshotSync"
          THEN IF pngs = <<>> \/ pngs[1].url = NoUrl
               THEN McpThrow(loc, "No screenshot artifact found")
               ELSE Step("mcp_download", McpNoResponse,
                         << DownloadRequest(pngs[1].url) >>, <<>>, loc)
          ELSE McpNextDownload([loc EXCEPT !.artifacts = artifacts, !.k = 1])

\* downloadArtifact answered.
ArtifactDownloaded(loc, d) ==
  IF d.outcome = "network_error" THEN McpThrow(loc, "fetch failed")
  ELSE IF d.outcome = "http_error" THEN McpThrow(loc, "Download failed: 404")
  ELSE IF loc.via = "screenshotSync" THEN ScreenshotTaken(loc, d.body.bytes)
  ELSE LET a == loc.artifacts[loc.k]
       IN McpNextDownload(
            [loc EXCEPT
               !.got = Append(@, [name |-> a.name,
                                  type |-> IF EndsWithPng(a) THEN "image" ELSE "file",
                                  body |-> d.body]),
               !.k = @ + 1,
               !.consoleLogs = IF a.name = << "console", ".json" >>
                               THEN d.body.t = "json" ELSE @,
               !.networkHar = IF a.name = << "network", ".har" >>
                              THEN d.body.t = "json" ELSE @])

\* The dispatch of the handler on the tool's name.
Dispatch(loc) ==
  IF tool = "riddle_screenshot" THEN ScreenshotRequest(loc)
  ELSE IF tool = "riddle_batch_screenshot" THEN BatchNext(loc)
  ELSE IF tool \in {"riddle_automate", "riddle_click_and_screenshot"}
  THEN Step("mcp_post", McpNoResponse,
            << McpRunRequest(
                 [url |-> params.urls[1], sync |-> "false",
                  timeout_sec |-> IF tool = "riddle_click_and_screenshot" THEN 30
                                  ELSE IF params.timeout_sec = NoNumber THEN 60
                                  ELSE params.timeout_sec]) >>,
            <<>>, [loc EXCEPT !.via = "runScriptSync"])
  ELSE McpThrow(loc, "Unknown tool: " \o tool)

\* A continuation of the handler ran at the time now: the request awaited
\* is answered.  When riddle_batch_screenshot is through with a URL, the
\* log keeps of that URL's requests the last one, whose answer settled it.
McpTake(step, answer) ==
  LET answered == IF reqs = <<>> THEN reqs
                  ELSE [reqs EXCEPT ![Len(reqs)].answer = answer]
  IN /\ pc' = step.pc
     /\ out' = step.out
     /\ reqs' = IF step.local.u # local.u
                THEN SubSeq(answered, 1, local.u - 1)
                       \o << answered[Len(answered)] >> \o step.reqs
                ELSE answered \o step.reqs
     /\ files' = files \o step.writes
     /\ local' = [step.local EXCEPT !.now = 0]
     /\ UNCHANGED << tool, cfg, params >>

InitMcp ==
  /\ tool \in McpTools
  /\ cfg = getCfg("rk_live", [apiKey |-> "", baseUrl |-> <<>>])
  /\ params \in McpParams[tool]
  /\ pc = "start"
  /\ out = McpNoResponse
  /\ reqs = <<>>
  /\ files = <<>>
  /\ local = McpLocal0

\* server.setRequestHandler(CallToolRequestSchema, ...) up to the first await
CallTool ==
  /\ pc = "start"
  /\ \E now \in McpClock : McpTake(Dispatch([local EXCEPT !.now = now]), NoAnswer)

McpPostResponse ==
  /\ pc = "mcp_post"
  /\ \E now \in McpClock, resp \in McpPostResponses(local.via) :
       McpTake(IF local.via = "screenshotSync"
               THEN ScreenshotPosted([local EXCEPT !.now = now], resp)
               ELSE ScriptPosted([local EXCEPT !.now = now], resp),
               resp)

McpJobResponse ==
  /\ pc = "mcp_job"
  /\ \E now \in McpClock, resp \in McpJobResponses :
       McpTake(WaitStep([local EXCEPT !.now = now], resp), resp)

McpArtifactsResponse ==
  /\ pc = "mcp_artifacts"
  /\ \E now \in McpClock, resp \in McpArtifactsResponses :
       McpTake(ArtifactsListed([local EXCEPT !.now = now], resp), resp)

McpDownloadResponse ==
  /\ pc = "mcp_download"
  /\ \E now \in McpClock, d \in McpDownloads(reqs[Len(reqs)].url) :
       McpTake(ArtifactDownloaded([local EXCEPT !.now = now], d), d)

NextMcp ==
  \/ CallTool
  \/ McpPostResponse
  \/ McpJobResponse
  \/ McpArtifactsResponse
  \/ McpDownloadResponse

SpecMcp == InitMcp /\ [][NextMcp]_vars


(***************************************************************************)
(* The domain guard and the plugin's capabilities.                         *)
(***************************************************************************)
KeyConfigured == cfg.apiKey # ""

RequestHost(r) == ParseUrl(r.url).hostname

\* <workspace>/riddle
RiddleDir == Workspace \o << "riddle" >>

\* The URL is https on the host api.riddledc.com.
OnApiHost(u) ==
  LET url == ParseUrl(u)
  IN url.ok /\ url.protocol = "https:" /\ url.hostname = ApiHost

IsPrefix(pre, s) == Len(pre) <= Len(s) /\ SubSeq(s, 1, Len(pre)) = pre

\* riddle_poll rejects a call without job_id before it reads the
\* configuration.
RejectedJobId == tool = "riddle_poll" /\ params.job_id = NoJob /\ pc = "threw"

\* C1: in every tool execution no request is issued unless an API key is
\* configured and the base URL is https on host api.riddledc.com; without a
\* key the tool returns ok:false with no request made, and with a key and a
\* disallowed base URL it throws with no request made.  (riddle_poll called
\* without a job_id throws before it looks at the configuration.)
GuardBeforeEveryRequest ==
  /\ reqs # <<>> => KeyConfigured /\ OnApiHost(cfg.baseUrl)
  /\ (pc # "start" /\ ~KeyConfigured) =>
       /\ reqs = <<>>
       /\ RejectedJobId \/ (pc = "done" /\ ~out.ok /\ out.error = MissingKey)
  /\ (pc # "start" /\ KeyConfigured /\ ~OnApiHost(cfg.baseUrl)) =>
       /\ reqs = <<>>
       /\ pc = "threw"

\* A key is configured, the base URL is https on another host, and the tool
\* has thrown.
GuardRejectedHost ==
  /\ pc = "threw"
  /\ tool = "riddle_server_preview"
  /\ KeyConfigured
  /\ ParseUrl(cfg.baseUrl).protocol = "https:"
  /\ ParseUrl(cfg.baseUrl).hostname # ApiHost
  /\ reqs = <<>>

\* C2: every request that carries the Authorization header goes to
\* api.riddledc.com over https, and the requests to URLs taken from server
\* responses (artifact downloads, tarball uploads) do not carry it.
KeyOnlyToApiHost ==
  \A i \in DOMAIN reqs :
    /\ reqs[i].auth => OnApiHost(reqs[i].url)
    /\ ~OnApiHost(reqs[i].url) => ~reqs[i].auth
    /\ reqs[i].kind \in {"download", "upload"} => ~reqs[i].auth

\* An execution that sent the key to the API and fetched a CDN URL without it.
KeyedAndUnkeyedRequests ==
  /\ \E i \in DOMAIN reqs : reqs[i].auth /\ reqs[i].kind = "artifacts"
  /\ \E i \in DOMAIN reqs :
       reqs[i].kind = "download" /\ ~reqs[i].auth /\ RequestHost(reqs[i]) # ApiHost

\* C3: every request of every tool execution targets host api.riddledc.com.
EveryRequestToApiHost ==
  \A i \in DOMAIN reqs : RequestHost(reqs[i]) = ApiHost

\* C4: every file written in every tool execution lies under
\* <workspace>/riddle/.
EveryWriteUnderRiddleDir ==
  \A i \in DOMAIN files : IsPrefix(RiddleDir, files[i].path)

(***************************************************************************)
(* detectMode.                                                             *)
(***************************************************************************)
ModeFields == << "url", "urls", "steps", "script" >>

Present(v) == v.t # "absent"

PresentFields(payload) == {i \in 1..4 : Present(payload[ModeFields[i]])}

TruthyFields(payload) == {i \in 1..4 : Truthy(payload[ModeFields[i]])}

First(S) == CHOOSE i \in S : \A j \in S : i <= j

\* C5 as stated: the mode is the first present field in the order url,
\* urls, steps, script.
ModeIsFirstPresentField ==
  (tool = "detectMode" /\ pc = "done" /\ PresentFields(params.payload) # {}) =>
    out.mode = ModeFields[First(PresentFields(params.payload))]

\* C5: the mode is the first truthy field in the order url, urls, steps,
\* script, so the one truthy field when there is exactly one; a field that
\* is present but falsy counts as absent, and the mode is undefined when no
\* field is truthy.
ModeIsFirstTruthyField ==
  (tool = "detectMode" /\ pc = "done") =>
    out.mode = IF TruthyFields(params.payload) = {} THEN NoMode
               ELSE ModeFields[First(TruthyFields(params.payload))]

\* detectMode was applied to a payload whose url is present but falsy and
\* whose only truthy field is script.
ModeSkipsFalsyField ==
  /\ tool = "detectMode"
  /\ pc = "done"
  /\ Present(params.payload.url)
  /\ TruthyFields(params.payload) = {4}
  /\ out.mode = "script"

(***************************************************************************)
(* runWithDefaults, read off the log of requests: reqs[1] is the POST to   *)
(* /v1/run and its answer the response that runWithDefaults classifies.    *)
(***************************************************************************)
Answer(i) == reqs[i].answer

IsAnswered(i) == Answer(i) # NoAnswer

PostAnswered == tool = "riddle_run" /\ reqs # <<>> /\ IsAnswered(1)

PostJson == Answer(1).body.json

Post408WithJob ==
  /\ PostAnswered
  /\ Answer(1).status = 408
  /\ Answer(1).body.t = "json"
  /\ PostJson.job_id # NoJob

Post202WithJob ==
  /\ PostAnswered
  /\ Answer(1).status = 202
  /\ Answer(1).body.t = "json"
  /\ PostJson.job_id # NoJob
  /\ PostJson.status_url

DeferredJob == Post408WithJob \/ Post202WithJob

\* The i-th request is a status request answered 2xx with a JSON body.
StatusObserved(i) ==
  /\ reqs[i].kind = "status"
  /\ IsAnswered(i)
  /\ Answer(i).ok
  /\ Answer(i).body.t = "json"

StatusOf(i) == Answer(i).body.json.status

\* The i-th request is a download answered 2xx.
Fetched(i) ==
  /\ reqs[i].kind = "download"
  /\ IsAnswered(i)
  /\ Answer(i).outcome = "ok"

FetchedImages == {i \in DOMAIN reqs : Fetched(i) /\ Answer(i).body.t = "image"}

\* Some file written holds exactly these bytes at this path.
Wrote(path, bytes) ==
  \E k \in DOMAIN files :
    /\ files[k].path = path
    /\ files[k].data.t = "binary"
    /\ files[k].data.bytes = bytes

\* The result's screenshot is a reference to a written file of these bytes.
SpooledAs(bytes) ==
  /\ out.screenshot.t = "ref"
  /\ out.screenshot.sizeBytes = Len(bytes)
  /\ Wrote(out.screenshot.saved, bytes)

\* C6: after a 408 with a job_id or a 202 with job_id and status_url, not
\* in async mode, the next request is a status request for that job; an
\* artifact index request is only ever made right after a status response
\* that reported a terminal status, and is made after every response that
\* reported completed; no file is written before the tool returns; and the
\* result returned after completed has ok true, the job_id, status
\* completed, the duration_ms of that status response, the first
\* downloaded image as a reference to a file holding its bytes (named
\* <job_id>.png under riddle/screenshots), and the downloaded small console
\* log inline.
PollThenArtifactsThenSpool ==
  (DeferredJob /\ ~params.returnAsync) =>
    /\ Len(reqs) >= 2
    /\ reqs[2].kind = "status"
    /\ reqs[2].url = << "https:", "//", ApiHost, "/", "v1", "/", "jobs", "/" >>
                     \o PostJson.job_id
    /\ \A i \in DOMAIN reqs :
         reqs[i].kind = "artifacts" =>
           /\ i > 1
           /\ StatusObserved(i - 1)
           /\ StatusOf(i - 1) \in {"completed", "completed_timeout", "completed_error"}
    /\ files # <<>> => pc = "done"
    /\ \A i \in DOMAIN reqs :
         (StatusObserved(i) /\ StatusOf(i) = "completed") =>
           /\ Len(reqs) > i
           /\ reqs[i + 1].kind = "artifacts"
           /\ pc = "done" =>
                /\ out.ok
                /\ out.job_id = PostJson.job_id
                /\ out.status = "completed"
                /\ out.duration_ms = Answer(i).body.json.duration_ms
                /\ \A j \in FetchedImages :
                     (j = First(FetchedImages) /\ Answer(j).body.bytes # <<>>) =>
                       /\ SpooledAs(Answer(j).body.bytes)
                       /\ out.screenshot.url = reqs[j].url
                       /\ PostJson.job_id = Job1 =>
                            out.screenshot.saved =
                              RiddleDir \o << "screenshots", "job_1.png" >>
                /\ \A j \in DOMAIN reqs :
                     ( /\ Fetched(j)
                       /\ reqs[j].url = Cdn("console.json")
                       /\ Answer(j).body.t = "json" ) =>
                       out.console = Console10

\* Scenario B: a 408 with job_1, a poll that resolved completed, one PNG and
\* console.json downloaded, and the result returned.
DeferredJobCompleted ==
  /\ Post408WithJob
  /\ ~params.returnAsync
  /\ pc = "done"
  /\ PostJson.job_id = Job1
  /\ \E i \in DOMAIN reqs : StatusObserved(i) /\ StatusOf(i) = "completed"
  /\ out.status = "completed"
  /\ out.screenshot.t = "ref"
  /\ out.screenshot.sizeBytes = Len(PngBytes)
  /\ out.console = Console10

\* C7: in async mode, after a 408 with a job_id or a 202 with job_id and
\* status_url, runWithDefaults has returned with that job_id and status
\* "submitted", the POST being the only request made and no file written.
AsyncReturnsSubmitted ==
  (DeferredJob /\ params.returnAsync) =>
    /\ pc = "done"
    /\ out.job_id = PostJson.job_id
    /\ out.status = "submitted"
    /\ Len(reqs) = 1
    /\ files = <<>>

\* Scenario E: async mode on a 202.
AsyncSubmitted202 ==
  /\ Post202WithJob
  /\ params.returnAsync
  /\ pc = "done"
  /\ out.status = "submitted"
  /\ out.job_id = Job1

IsImageType(contentType) == contentType \in {"image/png", "image/jpeg"}

\* What C9 says of a response: it was returned as a binary result.
BinaryResult ==
  /\ pc = "done"
  /\ SpooledAs(Answer(1).body.bytes)
  /\ out.rawPngBase64 = NoValue
  /\ out.job_id = Answer(1).xJobId
  /\ out.duration_ms = Answer(1).xDurationMs
  /\ out.sync
  /\ Len(reqs) = 1

\* C9 as stated: a 200 response of any image content type is returned as a
\* binary result.
ImageResponseIsBinaryResult ==
  (PostAnswered /\ Answer(1).status = 200 /\ IsImageType(Answer(1).contentType)) =>
    BinaryResult

\* C9: a 200 response whose content type is image/png is returned as a
\* binary result: the screenshot is a reference to a file holding the
\* body's bytes, job_id and duration_ms are the x-job-id and x-duration-ms
\* headers, and the POST is the only request made.
PngResponseIsBinaryResult ==
  (PostAnswered /\ Answer(1).status = 200 /\ Answer(1).contentType = "image/png") =>
    BinaryResult

\* A raw PNG with both headers was returned.
PngResponseReturned ==
  /\ PostAnswered
  /\ Answer(1).contentType = "image/png"
  /\ Answer(1).body.bytes = PngBytes
  /\ pc = "done"
  /\ out.job_id = Job1
  /\ out.duration_ms = 1234
  /\ out.screenshot.t = "ref"

Post200Json ==
  /\ PostAnswered
  /\ Answer(1).status = 200
  /\ Answer(1).contentType = "application/json"
  /\ Answer(1).body.t = "json"

\* The payload of a data-URL string, <<>> when v is no such string.
DataUrlPayload(v) ==
  IF v.t = "string" /\ HasPrefixAt(v.text, 1, PngDataUrlPrefix)
  THEN SubSeq(v.text, Len(PngDataUrlPrefix) + 1, Len(v.text))
  ELSE <<>>

\* What C10 says of a synchronous JSON result, but for ok.
MergedResult ==
  /\ pc = "done"
  /\ Len(reqs) = 1
  /\ out.sync = FALSE
  /\ out.job_id = PostJson.job_id
  /\ out.status = PostJson.status
  /\ DataUrlPayload(PostJson.screenshot) # <<>> =>
       /\ out.screenshot.t = "ref"
       /\ out.screenshot.sizeBytes > 0
       /\ \E k \in DOMAIN files :
            /\ files[k].path = out.screenshot.saved
            /\ files[k].data.nbytes = out.screenshot.sizeBytes
            /\ Base64Encode(files[k].data.bytes) = DataUrlPayload(PostJson.screenshot)
  /\ (PostJson.console.t = "text" /\ PostJson.console.nbytes <= INLINE_CAP) =>
       out.console = PostJson.console

Body202(o) ==
  Json(o.job_id, TRUE, "queued", NoValue, NoValue, NoValue, NoValue, NoError)

\* out on the 202 path where out on the 408 path is o: the 202 body merged.
Twin202(o) == AssignJson(o, Body202(o))

\* The locals on the 202 path.
TwinLocal202(loc) == [loc EXCEPT !.via = "202"]

ResultsAgree(a, b) ==
  /\ a.ok = b.ok
  /\ a.job_id = b.job_id
  /\ a.status = b.status
  /\ a.duration_ms = b.duration_ms
  /\ a.error = b.error
  /\ a.timeout = b.timeout
  /\ a.screenshot = b.screenshot
  /\ a.screenshots = b.screenshots
  /\ a.console = b.console
  /\ a.result = b.result
  /\ a.har = b.har

\* The step s408 of the 408 path and the step s202 of the 202 path issue the
\* same requests and write the same files; both return, with results that
\* agree, or both throw, or both go on to the same await with the same
\* locals.
StepsAgree(s408, s202) ==
  /\ s408.pc = s202.pc
  /\ s408.reqs = s202.reqs
  /\ s408.writes = s202.writes
  /\ s408.pc = "done" => ResultsAgree(s408.out, s202.out)
  /\ s408.pc \notin {"done", "threw"} =>
       /\ s202.out = Twin202(s408.out)
       /\ s202.local = TwinLocal202(s408.local)

On408Path == tool = "riddle_run" /\ local.via = "408"

\* C11: the 408 path and the 202 path handle a deferred job identically.
\* When the POST is awaited, a 408 and a 202 (with status_url) naming the
\* same job lead to steps that agree; and in every state of the 408 path,
\* whatever response arrives next (status, artifact index, download), the
\* 202 path takes from its own state a step that agrees: same requests,
\* same file writes, and on return results equal in ok, job_id, status,
\* duration_ms, error, timeout and every artifact field.
DeferredPathsAgree ==
  /\ (tool = "riddle_run" /\ pc = "run_post") =>
       \A r408 \in PostResponses, r202 \in PostResponses :
         ( /\ r408.status = 408 /\ r408.body.t = "json"
           /\ r202.status = 202 /\ r202.body.json.status_url
           /\ r408.body.json.job_id = r202.body.json.job_id ) =>
           StepsAgree(Classify([out EXCEPT !.rawContentType = r408.contentType], r408),
                      Classify([out EXCEPT !.rawContentType = r202.contentType], r202))
  /\ (On408Path /\ pc = "poll") =>
       \A resp \in StatusResponses, latency \in Latencies :
         StepsAgree(PollStep(out, [local EXCEPT !.elapsed = @ + latency], resp),
                    PollStep(Twin202(out),
                             [TwinLocal202(local) EXCEPT !.elapsed = @ + latency],
                             resp))
  /\ (On408Path /\ pc = "index") =>
       \A resp \in IndexResponses :
         StepsAgree(IndexStep(out, local, resp),
                    IndexStep(Twin202(out), TwinLocal202(local), resp))
  /\ (On408Path /\ pc = "download") =>
       \A d \in DownloadsFor(local.plan[local.k].phase) :
         LET after(loc) == [loc EXCEPT !.result = Downloaded(@, loc.plan[loc.k], d),
                                       !.k = @ + 1]
         IN StepsAgree(NextDownload(out, after(local)),
                       NextDownload(Twin202(out), after(TwinLocal202(local))))

\* A job deferred by a 408 ended completed_timeout and the partial
\* artifacts were spooled and returned.
Deferred408Returned ==
  /\ Post408WithJob
  /\ pc = "done"
  /\ out.status = "completed_timeout"
  /\ ~out.ok
  /\ files # <<>>

(***************************************************************************)
(* pollJobStatus, read off the log of requests.                            *)
(***************************************************************************)
\* The status requests of pollJobStatus that were answered 2xx with JSON.
Observed == {i \in DOMAIN reqs : StatusObserved(i)}

\* Those that reported a terminal status.
TerminalObserved == {i \in Observed : StatusOf(i) \in TerminalStatuses}

StatusRequests == {i \in DOMAIN reqs : reqs[i].kind = "status"}

\* C12: pollJobStatus stops at the first status response that reports
\* completed, completed_timeout, completed_error or failed: no status
\* request follows such a response, so every response before it reported a
\* status that is not terminal and at most one terminal status is ever
\* observed; and the status runWithDefaults returns for the job is that
\* terminal status, which nothing replaces.
PollStopsAtTerminal ==
  tool = "riddle_run" =>
    \A i \in TerminalObserved :
      /\ \A j \in StatusRequests : j <= i
      /\ \A j \in Observed : j < i => StatusOf(j) \notin TerminalStatuses
      /\ pc \notin {"poll", "start", "run_post"}
      /\ pc = "done" => out.status = StatusOf(i)

\* The job was seen running, then completed_error, and the result with that
\* status was returned.
RunningThenTerminal ==
  /\ tool = "riddle_run"
  /\ pc = "done"
  /\ \E i \in Observed, j \in TerminalObserved :
       i < j /\ StatusOf(i) = "running" /\ StatusOf(j) = "completed_error"
  /\ out.status = "completed_error"

\* maxWaitMs as C13 states it.
MaxWaitMs ==
  IF params.payload.timeout_sec = NoNumber THEN 60 * 1000 + 30000
  ELSE params.payload.timeout_sec * 1000 + 30000

\* The execution polled and nothing but the bound can have ended the poll:
\* every status request was answered 2xx with a status that is not terminal.
OnlyNonTerminalObserved ==
  /\ DeferredJob
  /\ ~params.returnAsync
  /\ StatusRequests # {}
  /\ \A i \in StatusRequests : StatusObserved(i) /\ StatusOf(i) \notin TerminalStatuses

\* C13: polling is bounded by maxWaitMs = timeout_sec * 1000 + 30000, with
\* timeout_sec 60 when the payload has none.  A status request is in flight
\* only if less than maxWaitMs had elapsed when it was started; a poll that
\* saw no terminal status ends in ok:false with status "poll_timeout", no
\* artifact request and no file write, and not before maxWaitMs can have
\* elapsed (each request taking at most LatencySlow and each sleep
\* POLL_INTERVAL); and poll_timeout is returned in that case only, never
\* from a response and never as completed_timeout.
PollBoundedByMaxWait ==
  tool = "riddle_run" =>
    /\ pc = "poll" => local.elapsed < MaxWaitMs
    /\ (pc = "done" /\ OnlyNonTerminalObserved) =>
         /\ ~out.ok
         /\ out.status = "poll_timeout"
         /\ out.timeout = NoNumber
         /\ Cardinality(StatusRequests) * (LatencySlow + POLL_INTERVAL) >= MaxWaitMs
         /\ Len(reqs) = 1 + Cardinality(StatusRequests)
         /\ files = <<>>
    /\ (pc = "done" /\ out.status = "poll_timeout") => OnlyNonTerminalObserved
    /\ \A i \in Observed : StatusOf(i) # "poll_timeout"

\* Scenario C: with the default timeout the job was seen running twice and
\* the poll gave up.
PollTimedOut ==
  /\ tool = "riddle_run"
  /\ pc = "done"
  /\ params.payload.timeout_sec = NoNumber
  /\ Cardinality(StatusRequests) = 2
  /\ OnlyNonTerminalObserved
  /\ out.status = "poll_timeout"
  /\ ~out.ok

\* The last status request was answered non-2xx.
PollErrorObserved ==
  \E i \in StatusRequests :
    /\ \A j \in StatusRequests : j <= i
    /\ IsAnswered(i)
    /\ ~Answer(i).ok

\* The poll ran to its bound.
PollBoundReached ==
  /\ OnlyNonTerminalObserved
  /\ pc = "done"
  /\ out.status = "poll_timeout"

\* C14: once the poll loop of a deferred job has ended, it ended in one of
\* three ways: a terminal status was observed, the status endpoint answered
\* non-2xx, or the bound maxWaitMs was reached; and it made at most
\* ceil(maxWaitMs / 2000) status requests.
PollEndsInThreeWays ==
  (DeferredJob /\ ~params.returnAsync /\ pc # "poll") =>
    /\ TerminalObserved # {} \/ PollErrorObserved \/ PollBoundReached
    /\ Cardinality(StatusRequests) <= (MaxWaitMs + POLL_INTERVAL - 1) \div POLL_INTERVAL

\* C15: a non-2xx response of the status endpoint ends the poll of
\* runWithDefaults at once: the request it answers is the last request
\* made, no artifact request is made and no file is written, and the result
\* returned is ok:false with status "poll_error" and error "HTTP <status>".
PollErrorIsTerminal ==
  tool = "riddle_run" =>
    \A i \in StatusRequests :
      (IsAnswered(i) /\ ~Answer(i).ok) =>
        /\ pc = "done"
        /\ i = Len(reqs)
        /\ \A j \in DOMAIN reqs : reqs[j].kind \in {"run", "status"}
        /\ files = <<>>
        /\ ~out.ok
        /\ out.status = "poll_error"
        /\ out.error = "HTTP " \o ToString(Answer(i).http)

\* The job was seen running, then the status endpoint answered 500 and the
\* poll was given up.
PollErrorReturned ==
  /\ tool = "riddle_run"
  /\ pc = "done"
  /\ Observed # {}
  /\ PollErrorObserved
  /\ out.status = "poll_error"
  /\ out.error = "HTTP 500"

(***************************************************************************)
(* What runWithDefaults returns for a job that ended without completing.   *)
(***************************************************************************)
\* C16: when the poll resolves failed, runWithDefaults returns ok:false,
\* status "failed" and the error the job reported ("Job failed" when it
\* reported none); the status request is the last request made, so no
\* artifact request is issued, and no file is written.
FailedJobIsReturned ==
  tool = "riddle_run" =>
    \A i \in TerminalObserved :
      StatusOf(i) = "failed" =>
        /\ pc = "done"
        /\ i = Len(reqs)
        /\ \A j \in DOMAIN reqs : reqs[j].kind \in {"run", "status"}
        /\ files = <<>>
        /\ ~out.ok
        /\ out.status = "failed"
        /\ out.error = IF Answer(i).body.json.error # NoError
                       THEN Answer(i).body.json.error
                       ELSE "Job failed"

\* Scenario D: the job resolved failed with error "boom".
FailedJobBoom ==
  /\ tool = "riddle_run"
  /\ pc = "done"
  /\ \E i \in TerminalObserved : Answer(i).body.json.error = "boom"
  /\ out.status = "failed"
  /\ out.error = "boom"
  /\ ~out.ok

\* C17: when the poll resolves completed_timeout or completed_error,
\* runWithDefaults requests the artifact index next; and what it returns is
\* ok:false with that status, the job's timeout and error when the job
\* reported them, and the first image it could download spooled: the
\* screenshot is a reference to a written file holding the image's bytes.
PartialArtifactsRecovered ==
  tool = "riddle_run" =>
    \A i \in TerminalObserved :
      StatusOf(i) \in {"completed_timeout", "completed_error"} =>
        /\ Len(reqs) > i
        /\ reqs[i + 1].kind = "artifacts"
        /\ reqs[i + 1].auth
        /\ pc = "done" =>
             /\ ~out.ok
             /\ out.status = StatusOf(i)
             /\ out.duration_ms = Answer(i).body.json.duration_ms
             /\ Answer(i).body.json.timeout # NoNumber =>
                  out.timeout = Answer(i).body.json.timeout
             /\ Answer(i).body.json.error # NoError =>
                  out.error = Answer(i).body.json.error
             /\ FetchedImages # {} =>
                  /\ SpooledAs(Answer(First(FetchedImages)).body.bytes)
                  /\ out.screenshots.t = "array"
                  /\ \A k \in DOMAIN out.screenshots.items :
                       out.screenshots.items[k].t = "ref"

\* The job ended completed_timeout, one image was downloaded, and the
\* result was returned with the image spooled and the job's timeout.
PartialArtifactsReturned ==
  /\ tool = "riddle_run"
  /\ pc = "done"
  /\ \E i \in TerminalObserved : StatusOf(i) = "completed_timeout"
  /\ FetchedImages # {}
  /\ ~out.ok
  /\ out.status = "completed_timeout"
  /\ out.timeout = 10
  /\ out.screenshot.t = "ref"
  /\ files # <<>>

\* The POST was answered 4xx/5xx (but for a 408 that deferred the job), or
\* the status returned is a terminal status other than completed, or
\* poll_timeout or poll_error.
RunFailed ==
  \/ (Answer(1).status >= 400 /\ ~DeferredJob)
  \/ out.status \in (TerminalStatuses \ {"completed"})
  \/ out.status \in {"poll_timeout", "poll_error"}

\* C18: in every result runWithDefaults returns, ok is false whenever the
\* POST was answered 4xx/5xx, the status returned is completed_timeout,
\* completed_error or failed, or the status is poll_timeout or poll_error.
OkFalseOnEveryFailure ==
  (tool = "riddle_run" /\ pc = "done" /\ PostAnswered /\ RunFailed) => ~out.ok

\* C19: once the guard has passed and the POST is made, runWithDefaults
\* never raises.
NeverRaisesAfterGuard ==
  (tool = "riddle_run" /\ reqs # <<>>) => pc # "threw"

(***************************************************************************)
(* Screenshots in the results of runWithDefaults and riddle_poll.          *)
(***************************************************************************)
Returned == tool \in {"riddle_run", "riddle_poll"} /\ pc = "done"

\* The file at path: the last write to it.
LastWriteTo(path) ==
  CHOOSE k \in DOMAIN files :
    /\ files[k].path = path
    /\ \A m \in DOMAIN files : files[m].path = path => m <= k

\* v is a reference to a written file of the length it states.
IsFileRef(v) ==
  /\ v.t = "ref"
  /\ \E k \in DOMAIN files : files[k].path = v.saved
  /\ files[LastWriteTo(v.saved)].data.nbytes = v.sizeBytes

\* v carries no image data: an empty string, or an object without data.
IsEmptyImage(v) ==
  \/ v.t = "string" /\ v.text = <<>>
  \/ v.t = "object" /\ ~v.hasData

\* C20 as stated: in every result returned, screenshot when present and
\* every element of screenshots is a reference to a file of the stated
\* length, and rawPngBase64 is absent.
ScreenshotIsAlwaysReference ==
  Returned =>
    /\ out.screenshot # NoValue => IsFileRef(out.screenshot)
    /\ out.screenshots.t = "array" =>
         \A k \in DOMAIN out.screenshots.items : IsFileRef(out.screenshots.items[k])
    /\ out.rawPngBase64 = NoValue

\* C20: in every result returned, screenshot is absent, or a reference to
\* a written file whose length is the reference's sizeBytes, or the empty
\* string or object without data that the server sent, left as it was;
\* every element of screenshots is such a reference; and rawPngBase64 is
\* absent.  No result carries image data inline.
ScreenshotDataIsNeverInline ==
  Returned =>
    /\ \/ out.screenshot = NoValue
       \/ IsFileRef(out.screenshot)
       \/ IsEmptyImage(out.screenshot) /\ out.screenshot = PostJson.screenshot
    /\ out.screenshots.t = "array" =>
         \A k \in DOMAIN out.screenshots.items : IsFileRef(out.screenshots.items[k])
    /\ out.rawPngBase64 = NoValue

\* A result whose screenshot came as an object with data and whose
\* screenshots came as a base64 string and an object with data: all three
\* were returned as references.
ScreenshotShapesSpooled ==
  /\ Post200Json
  /\ pc = "done"
  /\ PostJson.screenshot.t = "object"
  /\ PostJson.screenshot.hasData
  /\ PostJson.screenshots.t = "array"
  /\ out.screenshot.t = "ref"
  /\ out.screenshot.sizeBytes = Len(JpegBytes)
  /\ Len(out.screenshots.items) = 2
  /\ Len(files) = 3

(***************************************************************************)
(* applySafetySpec as a function: local.result is the result it was given, *)
(* out the result it left, and files[local.k + 1 ..] the files it wrote.   *)
(***************************************************************************)
Spooled == tool = "applySafetySpec" /\ pc = "spooled"

\* The file-name key of the result given.
KeyName == IF local.result.job_id = NoJob THEN "unknown" ELSE "job_1"

ScreenshotsDir == RiddleDir \o << "screenshots" >>

\* The base64 payload of an image value: its text without a leading
\* data:image/png;base64, prefix; <<>> when the value carries no data.
ImagePayload(v) ==
  IF v.t = "string" \/ (v.t = "object" /\ v.hasData)
  THEN IF HasPrefixAt(v.text, 1, PngDataUrlPrefix)
       THEN SubSeq(v.text, Len(PngDataUrlPrefix) + 1, Len(v.text))
       ELSE v.text
  ELSE <<>>

\* A file was written at path whose bytes encode to this base64 text.
WroteDecoded(path, base64) ==
  \E k \in DOMAIN files :
    /\ files[k].path = path
    /\ files[k].data.t = "binary"
    /\ Base64Encode(files[k].data.bytes) = base64

\* C21: the bytes written for a screenshot are the decoding of its base64
\* payload without the data-URL prefix: for the singular screenshot, in
\* <key>.png, and for every element of screenshots that carries data, in
\* <key>-<index>.png, index being the element's position in the list.
ScreenshotBytesAreDecodedPayload ==
  Spooled =>
    /\ ImagePayload(local.result.screenshot) # <<>> =>
         WroteDecoded(ScreenshotsDir \o << KeyName \o ".png" >>,
                      ImagePayload(local.result.screenshot))
    /\ local.result.screenshots.t = "array" =>
         \A i \in DOMAIN local.result.screenshots.items :
           ImagePayload(local.result.screenshots.items[i]) # <<>> =>
             WroteDecoded(ScreenshotsDir
                            \o << KeyName \o "-" \o ToString(i - 1) \o ".png" >>,
                          ImagePayload(local.result.screenshots.items[i]))

\* A text file written at path holding the text v (its identity and its
\* UTF-8 length).
WroteText(path, v) ==
  \E k \in DOMAIN files :
    /\ files[k].path = path
    /\ files[k].data.t = "textfile"
    /\ files[k].data.id = v.id
    /\ files[k].data.nbytes = v.nbytes

WroteUnder(subdir) ==
  \E k \in DOMAIN files : IsPrefix(RiddleDir \o << subdir >>, files[k].path)

HarFile == RiddleDir \o << "har", KeyName \o ".har.json" >>

ConsoleFile == RiddleDir \o << "console", KeyName \o ".log" >>

\* C22: har stays inline exactly when harInline was given and its
\* serialised form has at most 50 * 1024 UTF-8 bytes: then result.har is
\* the original content (no reference, so no warning) and no HAR file is
\* written; in every other case with har present the serialised form is
\* written to <key>.har.json and har is replaced by a reference.
HarInlineWhenOptedInAndWithinCap ==
  (Spooled /\ local.result.har.t = "text") =>
    IF params.harInline /\ local.result.har.nbytes <= 50 * 1024
    THEN /\ out.har = local.result.har
         /\ ~WroteUnder("har")
    ELSE /\ out.har.t = "ref"
         /\ out.har.saved = HarFile
         /\ WroteText(HarFile, local.result.har)

\* A HAR of exactly 51200 bytes was left inline.
HarAtCapInline ==
  /\ Spooled
  /\ params.harInline
  /\ local.result.har.t = "text"
  /\ local.result.har.nbytes = 51200
  /\ out.har = local.result.har
  /\ ~WroteUnder("har")

\* C23: a har of more than 50 * 1024 bytes is replaced, whatever the
\* inline flag, by a reference whose sizeBytes is the UTF-8 length written;
\* and a har that was spooled carries a warning if and only if harInline
\* was given.
HarOverCapIsSpooled ==
  (Spooled /\ local.result.har.t = "text") =>
    /\ local.result.har.nbytes > 50 * 1024 =>
         /\ out.har.t = "ref"
         /\ out.har.sizeBytes = local.result.har.nbytes
         /\ WroteText(out.har.saved, local.result.har)
    /\ out.har.t = "ref" => (out.har.warning <=> params.harInline)

\* A HAR over the cap was spooled with the warning although inline was
\* asked for.
HarOverCapWarned ==
  /\ Spooled
  /\ params.harInline
  /\ local.result.har = HarOverCap
  /\ out.har.t = "ref"
  /\ out.har.warning
  /\ out.har.sizeBytes = INLINE_CAP + 1

\* C24: console stays inline and no console file is written whenever its
\* serialised form has at most 50 * 1024 UTF-8 bytes, and is replaced by a
\* reference to <key>.log of that length whenever it has more, whatever
\* harInline is; it is the UTF-8 length that counts, not the number of
\* characters.
ConsoleSpooledOverCapOnly ==
  (Spooled /\ local.result.console.t = "text") =>
    IF local.result.console.nbytes <= 50 * 1024
    THEN /\ out.console = local.result.console
         /\ ~WroteUnder("console")
    ELSE /\ out.console.t = "ref"
         /\ out.console.saved = ConsoleFile
         /\ out.console.sizeBytes = local.result.console.nbytes
         /\ ~out.console.warning
         /\ WroteText(ConsoleFile, local.result.console)

\* A console log of fewer than 51200 characters but more than 51200 bytes
\* was spooled, harInline being set.
ConsoleOverCapSpooled ==
  /\ Spooled
  /\ params.harInline
  /\ local.result.console.t = "text"
  /\ local.result.console.nchars < 51200
  /\ local.result.console.nbytes > 51200
  /\ out.console.t = "ref"

\* applySafetySpec was applied to the result of its first application:
\* local.result is what the first application returned, files[1..local.k]
\* what it wrote, and out what the second returned.
Respooled == tool = "applySafetySpec" /\ pc = "respooled"

\* C25: spooling is idempotent: the second application leaves screenshot,
\* screenshots, har and console as the first returned them, and writes to
\* no file that the first application wrote other than the same content.
SpoolingIsIdempotent ==
  Respooled =>
    /\ out.screenshot = local.result.screenshot
    /\ out.screenshots = local.result.screenshots
    /\ out.har = local.result.har
    /\ out.console = local.result.console
    /\ \A j \in DOMAIN files, i \in DOMAIN files :
         (i <= local.k /\ j > local.k /\ files[j].path = files[i].path) =>
           \E m \in 1..local.k : files[m] = files[j]

IsNullish(v) == v = NoValue \/ v = NullValue

ScreenshotFile == ScreenshotsDir \o << KeyName \o ".png" >>

WroteTo(path) == \E k \in DOMAIN files : files[k].path = path

\* The fields applySafetySpec has no business with are as they were.
OtherFieldsUnchanged ==
  /\ out.ok = local.result.ok
  /\ out.mode = local.result.mode
  /\ out.job_id = local.result.job_id
  /\ out.status = local.result.status
  /\ out.duration_ms = local.result.duration_ms
  /\ out.result = local.result.result
  /\ out.error = local.result.error

\* An absent or null screenshots, har or console is left as it was and no
\* file is written for it.
NullishListHarConsoleUntouched ==
  /\ IsNullish(local.result.screenshots) =>
       /\ out.screenshots = local.result.screenshots
       /\ ~WroteTo(ScreenshotsDir \o << KeyName \o "-0.png" >>)
  /\ IsNullish(local.result.har) =>
       /\ out.har = local.result.har
       /\ ~WroteUnder("har")
  /\ IsNullish(local.result.console) =>
       /\ out.console = local.result.console
       /\ ~WroteUnder("console")

\* C26 as stated: an absent or null screenshot, screenshots, har or console
\* is left absent or null with no file written for it, and no other field
\* is changed.
NullishFieldsUntouched ==
  Spooled =>
    /\ IsNullish(local.result.screenshot) =>
         /\ out.screenshot = local.result.screenshot
         /\ ~WroteTo(ScreenshotFile)
    /\ NullishListHarConsoleUntouched
    /\ OtherFieldsUnchanged

\* C26: an absent or null screenshots, har or console is left as it was
\* with no file written for it, and so is an absent or null screenshot
\* unless the result carries rawPngBase64: then screenshot becomes the
\* reference to <key>.png, the file that holds the decoded rawPngBase64;
\* ok, mode, job_id, status, duration_ms, result and error are never
\* changed.
NullishFieldsUntouchedButForRawPng ==
  Spooled =>
    /\ IsNullish(local.result.screenshot) =>
         IF IsNullish(local.result.rawPngBase64)
         THEN /\ out.screenshot = local.result.screenshot
              /\ ~WroteTo(ScreenshotFile)
         ELSE /\ out.screenshot.t = "ref"
              /\ out.screenshot.saved = ScreenshotFile
              /\ WroteDecoded(ScreenshotFile, local.result.rawPngBase64.text)
              /\ out.rawPngBase64 = NoValue
    /\ NullishListHarConsoleUntouched
    /\ OtherFieldsUnchanged

\* A result whose screenshot, screenshots and console were null and whose
\* har was absent came back as it was, nothing written.
NullishResultPassedThrough ==
  /\ Spooled
  /\ local.result.screenshot = NullValue
  /\ local.result.screenshots = NullValue
  /\ local.result.console = NullValue
  /\ local.result.har = NoValue
  /\ local.result.rawPngBase64 = NoValue
  /\ out = local.result
  /\ files = <<>>

UnknownScreenshotFile == ScreenshotsDir \o << "unknown.png" >>

\* C27: a result without job_id is spooled like any other, under the key
\* "unknown": its rawPngBase64 or its screenshot data is written to
\* screenshots/unknown.png, a har that is not kept inline to
\* har/unknown.har.json and a console over the cap to console/unknown.log,
\* and each field is returned as the reference to its file.
SpoolsWithoutJobId ==
  (Spooled /\ local.result.job_id = NoJob) =>
    /\ ~IsNullish(local.result.rawPngBase64) =>
         /\ out.screenshot.t = "ref"
         /\ out.screenshot.saved = UnknownScreenshotFile
         /\ WroteDecoded(UnknownScreenshotFile, local.result.rawPngBase64.text)
    /\ (IsNullish(local.result.rawPngBase64)
          /\ ImagePayload(local.result.screenshot) # <<>>) =>
         /\ out.screenshot.t = "ref"
         /\ out.screenshot.saved = UnknownScreenshotFile
         /\ WroteTo(UnknownScreenshotFile)
    /\ (local.result.har.t = "text"
          /\ (~params.harInline \/ local.result.har.nbytes > 50 * 1024)) =>
         /\ out.har.t = "ref"
         /\ out.har.saved = RiddleDir \o << "har", "unknown.har.json" >>
         /\ WroteText(RiddleDir \o << "har", "unknown.har.json" >>, local.result.har)
    /\ (local.result.console.t = "text"
          /\ local.result.console.nbytes > 50 * 1024) =>
         /\ out.console.t = "ref"
         /\ out.console.saved = RiddleDir \o << "console", "unknown.log" >>
         /\ WroteText(RiddleDir \o << "console", "unknown.log" >>, local.result.console)

\* The result of a raw image response that had no x-job-id header was
\* spooled to unknown.png.
RawImageWithoutJobIdSpooled ==
  /\ Spooled
  /\ local.result.job_id = NoJob
  /\ local.result.screenshot = NoValue
  /\ local.result.rawPngBase64 = ImgStr(Base64Encode(JpegBytes))
  /\ out.screenshot.t = "ref"
  /\ out.screenshot.saved = UnknownScreenshotFile
  /\ WroteDecoded(UnknownScreenshotFile, Base64Encode(JpegBytes))

(***************************************************************************)
(* Invocations sharing a workspace (SpecShared).                           *)
(***************************************************************************)
\* The references of a result: screenshot, har and console when spooled.
SavedRefs(result) ==
  { v \in {result.screenshot, result.har, result.console} : v.t = "ref" }

\* The writes invocation i has made so far.
WritesDone(i) == { local[i].writes[k] : k \in 1..local[i].k }

\* C28: no two invocations write the same file path, and the file named by
\* each saved reference of an invocation that has returned holds what that
\* invocation wrote there, at its return and ever after.
ConcurrentWritesAreSafe ==
  /\ \A i \in Invocations, j \in Invocations :
       i # j => \A w \in WritesDone(i), x \in WritesDone(j) : w.path # x.path
  /\ \A i \in Invocations :
       pc[i] = "done" =>
         \A ref \in SavedRefs(out[i]) :
           /\ WroteTo(ref.saved)
           /\ files[LastWriteTo(ref.saved)] \in WritesDone(i)

(***************************************************************************)
(* fetchArtifactsAndBuild's downloads (Spec).                              *)
(***************************************************************************)
\* The download awaited in this state is answered in the next one.
DownloadAnswered ==
  /\ pc = "download"
  /\ reqs'[Len(reqs)].answer # NoAnswer

\* ... and it failed: the fetch rejected, the response was not 2xx, or the
\* body of a JSON artifact did not parse.
DownloadFailed ==
  /\ DownloadAnswered
  /\ LET d == reqs'[Len(reqs)].answer
     IN \/ d.outcome # "ok"
        \/ local.plan[local.k].phase # "screenshots" /\ d.body.t # "json"

\* C29: a download that fails, by a network error, a non-2xx response or a
\* body that does not parse as JSON, is never fatal: nothing is raised, the
\* result under construction is left as it was (the artifact omitted, no
\* error set), the next artifact of the index is requested when there is
\* one, and otherwise the caller returns the result built from the
\* artifacts that were downloaded.
FailedDownloadIsNotFatal ==
  [][DownloadFailed =>
       /\ pc' # "threw"
       /\ IF local.k < Len(local.plan)
          THEN /\ pc' = "download"
               /\ local'.result = local.result
               /\ local'.plan = local.plan
               /\ local'.k = local.k + 1
               /\ Len(reqs') = Len(reqs) + 1
               /\ reqs'[Len(reqs')] = DownloadRequest(local.plan[local.k + 1].url)
          ELSE /\ pc' = "done"
               /\ out' = AfterArtifacts(out, local, local.result).out
               /\ out'.error \in {NoError, local.jobStatus.error}]_vars

FailedDownloads ==
  {i \in DOMAIN reqs : /\ reqs[i].kind = "download"
                       /\ IsAnswered(i)
                       /\ Answer(i).outcome \in {"network_error", "http_error"}}

\* The first image of the index could not be downloaded and the console
\* log listed after it was: the result has the log, no screenshot and no
\* error.
FailedDownloadSkipped ==
  /\ tool = "riddle_run"
  /\ pc = "done"
  /\ \E i \in FailedDownloads :
       /\ Answer(i).outcome = "network_error"
       /\ Len(reqs) = i + 1
       /\ reqs[i + 1].kind = "download"
       /\ Answer(i + 1).outcome = "ok"
       /\ Answer(i + 1).body.t = "json"
  /\ out.ok
  /\ out.error = NoError
  /\ out.console = Console10
  /\ out.screenshot = NoValue

HarUrl == Cdn("network.har")

HarRequests == {i \in DOMAIN reqs : reqs[i].kind = "download" /\ reqs[i].url = HarUrl}

\* The include the caller gave: payload.include of a run, params.include of
\* riddle_poll.
CallerInclude ==
  IF tool = "riddle_poll" THEN params.include ELSE params.payload.include

\* C30: network.har is requested only when the include the caller gave
\* contains "har": a tool's default include never adds it, so under
\* runWithDefaults the merged include contains "har" exactly when
\* payload.include does; otherwise no request for the HAR is made even
\* when the index lists it.
HarOnlyWhenIncluded ==
  tool \in {"riddle_run", "riddle_poll"} =>
    /\ HarRequests # {} => Includes(CallerInclude, "har")
    /\ tool = "riddle_run" =>
         \A name \in DOMAIN ToolDefaultIncludes :
           Includes(MergedInclude(params.payload, ToolDefaultIncludes[name]), "har")
             <=> Includes(params.payload.include, "har")

\* The index listed network.har with its URL, the caller's include had no
\* "har", and the run returned without a request for it.
ListedHarNotFetched ==
  /\ tool = "riddle_run"
  /\ pc = "done"
  /\ ~Includes(params.payload.include, "har")
  /\ \E i \in DOMAIN reqs :
       /\ reqs[i].kind = "artifacts"
       /\ IsAnswered(i)
       /\ Answer(i).ok
       /\ Answer(i).body.t = "json"
       /\ \E k \in DOMAIN Answer(i).body.json.artifacts :
            Answer(i).body.json.artifacts[k] = Artifact(<< "network", ".har" >>, HarUrl)
  /\ HarRequests = {}
  /\ out.har = NoValue

(***************************************************************************)
(* The order of the downloads (Spec).                                      *)
(***************************************************************************)
FetchTool == tool \in {"riddle_run", "riddle_poll"}

\* The artifact index requests answered 2xx with JSON.
IndexesRead ==
  {i \in DOMAIN reqs : /\ reqs[i].kind = "artifacts"
                       /\ IsAnswered(i)
                       /\ Answer(i).ok
                       /\ Answer(i).body.t = "json"}

\* The entries of the index that was read.
IndexEntries == Answer(CHOOSE i \in IndexesRead : TRUE).body.json.artifacts

DownloadRequests == {i \in DOMAIN reqs : reqs[i].kind = "download"}

\* The place in the index of the entry a download request is for.
PlaceOf(i) == CHOOSE k \in DOMAIN IndexEntries : IndexEntries[k].url = reqs[i].url

\* 0 for an image, then console.json, result.json and network.har.
KindRank(a) ==
  IF a.name = << "console", ".json" >> THEN 1
  ELSE IF a.name = << "result", ".json" >> THEN 2
  ELSE IF a.name = << "network", ".har" >> THEN 3
  ELSE 0

\* No request is made while another is unanswered.
OneRequestInFlight ==
  \A i \in DOMAIN reqs : ~IsAnswered(i) => i = Len(reqs)

\* C31 as stated: downloads proceed one at a time and in the order of the
\* entries in the artifact index.
DownloadsInIndexOrder ==
  FetchTool =>
    /\ OneRequestInFlight
    /\ \A i \in DownloadRequests, j \in DownloadRequests :
         i < j => PlaceOf(i) < PlaceOf(j)

\* C31: downloads proceed one at a time, the images first, in the order of
\* their entries in the artifact index, then console.json, then
\* result.json, then network.har.
DownloadsInKindThenIndexOrder ==
  FetchTool =>
    /\ OneRequestInFlight
    /\ \A i \in DownloadRequests, j \in DownloadRequests :
         i < j =>
           LET a == IndexEntries[PlaceOf(i)]
               b == IndexEntries[PlaceOf(j)]
           IN \/ KindRank(a) < KindRank(b)
              \/ KindRank(a) = KindRank(b) /\ PlaceOf(i) < PlaceOf(j)

\* The index listed console.json before screenshot.png; the image was
\* downloaded first, the log after its answer, and the run returned.
ImageFetchedBeforeConsole ==
  /\ FetchTool
  /\ pc = "done"
  /\ IndexesRead # {}
  /\ IndexEntries = << Artifact(<< "console", ".json" >>, Cdn("console.json")),
                       Artifact(<< "screenshot", ".png" >>, Cdn("screenshot.png")) >>
  /\ \E i \in DownloadRequests :
       /\ reqs[i].url = Cdn("screenshot.png")
       /\ i + 1 \in DownloadRequests
       /\ reqs[i + 1].url = Cdn("console.json")

\* Two images were downloaded one after the other, in index order.
TwoImagesInIndexOrder ==
  /\ FetchTool
  /\ pc = "done"
  /\ \E i \in DownloadRequests :
       /\ i + 1 \in DownloadRequests
       /\ KindRank(IndexEntries[PlaceOf(i)]) = 0
       /\ KindRank(IndexEntries[PlaceOf(i + 1)]) = 0
       /\ PlaceOf(i) < PlaceOf(i + 1)

(***************************************************************************)
(* The screenshots fetchArtifactsAndBuild collects (Spec).                 *)
(***************************************************************************)
IsImageEntry(a) ==
  a.name # <<>> /\ a.name[Len(a.name)] \in {".png", ".jpg", ".jpeg", ".PNG", ".JPG", ".JPEG"}

IsImageUrl(url) ==
  \E k \in DOMAIN IndexEntries : IndexEntries[k].url = url /\ IsImageEntry(IndexEntries[k])

\* The image downloads that succeeded, in the order they were made.
ImagesDownloaded ==
  SelectSeq(reqs, LAMBDA r : /\ r.kind = "download"
                             /\ r.answer # NoAnswer
                             /\ IsImageUrl(r.url)
                             /\ r.answer.outcome = "ok")

\* { name, data, size, url } of a downloaded image.
ShotOf(r) ==
  ImgObj(TRUE, PngDataUrlPrefix \o Base64Encode(r.answer.body.bytes), r.url)

\* Every image entry of the index that has a url was requested.
AllImagesRequested ==
  \A k \in DOMAIN IndexEntries :
    (IsImageEntry(IndexEntries[k]) /\ IndexEntries[k].url # NoUrl) =>
      \E i \in DownloadRequests : reqs[i].url = IndexEntries[k].url

\* C32: the screenshots of fetchArtifactsAndBuild are the index entries
\* with an image extension, in either case, and a url whose download
\* succeeded, in index order, and screenshot is the first of them, present
\* exactly when there is one.  While the downloads go on the list holds the
\* images downloaded so far; on return every image entry with a url was
\* requested and the screenshots returned are the references of the
\* images downloaded, in that order.
ScreenshotsAreDownloadedImages ==
  (FetchTool /\ IndexesRead # {}) =>
    /\ \A i \in DownloadRequests, j \in DownloadRequests :
         (i < j /\ IsImageUrl(reqs[i].url) /\ IsImageUrl(reqs[j].url)) =>
           PlaceOf(i) < PlaceOf(j)
    /\ pc = "download" =>
         LET shots == local.result.screenshots
         IN /\ shots # NoValue =>
                 /\ Len(shots.items) = Len(ImagesDownloaded)
                 /\ \A n \in DOMAIN shots.items :
                      shots.items[n] = ShotOf(ImagesDownloaded[n])
            /\ shots = NoValue => ImagesDownloaded = <<>>
            /\ local.result.screenshot =
                 (IF ImagesDownloaded = <<>> THEN NoValue
                  ELSE ShotOf(ImagesDownloaded[1]))
    /\ pc = "done" =>
         /\ AllImagesRequested
         /\ ImagesDownloaded # <<>> =>
              /\ out.screenshots.t = "array"
              /\ Len(out.screenshots.items) = Len(ImagesDownloaded)
              /\ \A n \in DOMAIN out.screenshots.items :
                   out.screenshots.items[n].url = ImagesDownloaded[n].url
              /\ out.screenshot.t = "ref"
              /\ out.screenshot.url = ImagesDownloaded[1].url
         /\ ImagesDownloaded = <<>> => out.screenshot = NoValue

\* Of screenshot.png and page.JPG the first download failed: screenshots
\* holds page.JPG alone, which is also the screenshot.
OnlySecondImageCollected ==
  /\ FetchTool
  /\ pc = "done"
  /\ IndexesRead # {}
  /\ IndexEntries = << Artifact(<< "screenshot", ".png" >>, Cdn("screenshot.png")),
                       Artifact(<< "page", ".JPG" >>, Cdn("page.JPG")) >>
  /\ Len(ImagesDownloaded) = 1
  /\ Cardinality(DownloadRequests) = 2
  /\ Len(out.screenshots.items) = 1
  /\ out.screenshot.url = Cdn("page.JPG")

(***************************************************************************)
(* riddle_poll (Spec).                                                     *)
(***************************************************************************)
\* C33: riddle_poll makes one status request and no more.  Answered with a
\* status that is not terminal, it returns ok:true with that status, the
\* status request being its only request and no file written; answered
\* with a terminal status it requests the artifact index next, and the
\* result it returns has that status, ok exactly when the status is
\* completed, and every image downloaded spooled to a file; answered
\* non-2xx it returns ok:false with the job_id and the HTTP status.
PollToolPollsOnce ==
  tool = "riddle_poll" =>
    /\ Cardinality(StatusRequests) <= 1
    /\ \A i \in StatusRequests :
         /\ i = 1
         /\ (IsAnswered(i) /\ ~Answer(i).ok) =>
              /\ pc = "done"
              /\ ~out.ok
              /\ out.job_id = params.job_id
              /\ out.error = "HTTP " \o ToString(Answer(i).http)
              /\ Len(reqs) = 1
              /\ files = <<>>
         /\ (StatusObserved(i) /\ StatusOf(i) \notin TerminalStatuses) =>
              /\ pc = "done"
              /\ out.ok
              /\ out.job_id = params.job_id
              /\ out.status = StatusOf(i)
              /\ Len(reqs) = 1
              /\ files = <<>>
         /\ (StatusObserved(i) /\ StatusOf(i) \in TerminalStatuses) =>
              /\ Len(reqs) >= 2
              /\ reqs[2].kind = "artifacts"
              /\ pc = "done" =>
                   /\ out.ok <=> StatusOf(i) = "completed"
                   /\ out.job_id = params.job_id
                   /\ out.status = StatusOf(i)
                   /\ FetchedImages # {} =>
                        /\ out.screenshot.t = "ref"
                        /\ WroteTo(out.screenshot.saved)

\* riddle_poll found the job failed, fetched its artifacts all the same and
\* returned ok:false with the image spooled.
PollToolFetchedFailedJob ==
  /\ tool = "riddle_poll"
  /\ pc = "done"
  /\ reqs # <<>>
  /\ StatusObserved(1)
  /\ StatusOf(1) = "failed"
  /\ Len(reqs) >= 3
  /\ FetchedImages # {}
  /\ ~out.ok
  /\ out.error = "boom"
  /\ out.screenshot.t = "ref"

(***************************************************************************)
(* What ok:true means (Spec).                                              *)
(***************************************************************************)
PollSawCompleted == \E i \in Observed : StatusOf(i) = "completed"

\* C35: a result that runWithDefaults returns with ok:true when async mode
\* was not asked for is the result of a finished job: the POST was answered
\* 200, or a poll observed the status completed.  A 202 is never returned
\* as ok:true without a poll.
OkMeansFinished ==
  (tool = "riddle_run" /\ pc = "done" /\ out.ok /\ ~params.returnAsync) =>
    /\ PostAnswered
    /\ Answer(1).status = 200 \/ PollSawCompleted

\* C36: a result that runWithDefaults returns with ok:true has no error,
\* also when the artifact index request failed after the poll observed
\* completed.
OkCarriesNoError ==
  (tool = "riddle_run" /\ pc = "done" /\ out.ok) => out.error = NoError

(***************************************************************************)
(* The body posted to /v1/run (Spec).                                      *)
(***************************************************************************)
\* The POST is issued in this step.
RunPosted == tool = "riddle_run" /\ pc = "start" /\ pc' = "run_post"

\* xs without duplicates holds the elements of ys, in the order in which
\* each first occurs in ys.
IsDedupeOf(xs, ys) ==
  /\ \A i \in DOMAIN xs, j \in DOMAIN xs : xs[i] = xs[j] => i = j
  /\ {xs[i] : i \in DOMAIN xs} = {ys[i] : i \in DOMAIN ys}
  /\ \A i \in DOMAIN xs, j \in DOMAIN xs :
       i < j =>
         (CHOOSE a \in DOMAIN ys : ys[a] = xs[i] /\ \A b \in 1..(a - 1) : ys[b] # xs[i])
           < (CHOOSE a \in DOMAIN ys : ys[a] = xs[j] /\ \A b \in 1..(a - 1) : ys[b] # xs[j])

\* C37: the body posted to /v1/run has as include the caller's include
\* followed by the tool's defaults, duplicates removed; it has no harInline;
\* its inlineHar is true when the caller's include contained "har" and its
\* sync is false when async mode was asked for; and the caller's payload is
\* after the call what it was before.
PostedBodyIsMergedCopy ==
  [][RunPosted =>
       LET body == reqs'[1].body
       IN /\ IsDedupeOf(body.include, params.payload.include \o RunDefaultInclude)
          /\ body.harInline = "absent"
          /\ Includes(params.payload.include, "har") => body.inlineHar = "true"
          /\ params.returnAsync => body.sync = "false"
          /\ params'.payload = params.payload]_vars

\* A run in async mode with include [console, har] and harInline was
\* posted with include [console, har, screenshot, result].
MergedBodyPosted ==
  /\ tool = "riddle_run"
  /\ pc = "run_post"
  /\ params.returnAsync
  /\ params.payload.harInline
  /\ params.payload.include = << "console", "har" >>
  /\ reqs[1].body.include = << "console", "har", "screenshot", "result" >>
  /\ reqs[1].body.sync = "false"
  /\ reqs[1].body.inlineHar = "true"

(***************************************************************************)
(* The MCP server: what its tools answer.                                  *)
(***************************************************************************)
ImageTools ==
  {"riddle_screenshot", "riddle_batch_screenshot", "riddle_automate",
   "riddle_click_and_screenshot"}

McpDone == pc = "done" /\ tool \in McpTools

IsTmpPath(p) == Len(p) = 4 /\ p[1] = "/" /\ p[2] = "tmp" /\ p[3] = "/"

PngUrls == {Cdn("screenshot.png"), Cdn("after-click.png")}

\* The requests whose answer was a PNG image: the POST of a screenshot tool
\* answered 200, and a download of a .png artifact that succeeded.
IsImageAnswer(r) ==
  \/ /\ r.kind = "run"
     /\ tool \in {"riddle_screenshot", "riddle_batch_screenshot"}
     /\ r.answer.status = 200
  \/ /\ r.kind = "download"
     /\ r.url \in PngUrls
     /\ r.answer.outcome = "ok"

ImagesObtained == { reqs[n].answer.body.bytes : n \in {m \in 1..Len(reqs) : IsImageAnswer(reqs[m])} }

\* The screenshots of a response that is not an error.
ReturnedShots ==
  LET v == out.text
  IN IF v.t = "screenshot" THEN << v.screenshot >>
     ELSE IF v.t = "batch"
     THEN LET good == SelectSeq(v.results, LAMBDA e : e.success)
          IN [n \in 1..Len(good) |-> good[n].screenshot]
     ELSE IF v.t = "automate" THEN v.screenshots
     ELSE IF v.screenshot = <<>> THEN <<>> ELSE << v.screenshot >>

WrittenAt(path) == { files[k].data : k \in {j \in 1..Len(files) : files[j].path = path} }

CurrentLog == SubSeq(reqs, local.u, Len(reqs))

StatusPlaces == {n \in 1..Len(CurrentLog) : CurrentLog[n].kind = "status"}

\* The error that ended the call, or the URL n of a batch.
CallFailedWith(message) ==
  /\ pc = "done"
  /\ out.isError
  /\ out.text.text = "Error: " \o message

UrlFailedWith(n, message) ==
  /\ n <= Len(local.results)
  /\ ~local.results[n].success
  /\ local.results[n].error = message

JobFailedMessage(job) ==
  "Job failed: " \o (IF job.error = NoError THEN "Unknown error" ELSE job.error)

\* What waitForJob does on the answer to its n-th status request of the
\* log, places being counted in the log: return (the artifacts are
\* requested next), throw, or ask again.
WaitOutcome(n) ==
  LET a == CurrentLog[n].answer
      asked == Cardinality({m \in StatusPlaces : m <= n})
      last == n = Len(CurrentLog)
  IN IF a.body.t # "json" THEN last /\ CallFailedWith(JsonSyntaxError)
     ELSE IF a.body.json.status \in {"completed", "complete"}
     THEN ~last /\ CurrentLog[n + 1].kind = "artifacts"
     ELSE IF a.body.json.status = "failed"
     THEN last /\ CallFailedWith(JobFailedMessage(a.body.json))
     ELSE IF asked < maxAttempts
     THEN ~last /\ CurrentLog[n + 1].kind = "status"
     ELSE last /\ CallFailedWith("Job timed out")

\* The same for the status request that settled the URL n of a batch.
BatchWaitOutcome(n) ==
  LET a == reqs[n].answer
  IN IF a.body.t # "json" THEN UrlFailedWith(n, JsonSyntaxError)
     ELSE IF a.body.json.status = "failed"
     THEN UrlFailedWith(n, JobFailedMessage(a.body.json))
     ELSE UrlFailedWith(n, "Job timed out")

\* C38: waitForJob makes at most maxAttempts status requests, having slept
\* intervalMs before each but the first; it returns on the first answer
\* completed or complete, throws "Job failed: " with the job's error (or
\* "Unknown error") on the first answer failed, asks again on any other
\* status while fewer than maxAttempts requests were made and throws
\* "Job timed out" after the last: whatever timeout_sec the tool was given.
WaitForJobIsBounded ==
  /\ Cardinality(StatusPlaces) <= maxAttempts
  /\ pc = "mcp_job" =>
       /\ local.i = Cardinality(StatusPlaces) - 1
       /\ local.slept = intervalMs * local.i
  /\ \A n \in StatusPlaces :
       (n < Len(CurrentLog) \/ pc = "done") => WaitOutcome(n)
  /\ \A n \in 1..(local.u - 1) :
       reqs[n].kind = "status" => BatchWaitOutcome(n)

\* riddle_automate, given timeout_sec 300, made maxAttempts status
\* requests and answered that the job timed out.
TimedOutAfterMaxAttempts ==
  /\ tool = "riddle_automate"
  /\ params.timeout_sec = 300
  /\ Cardinality(StatusPlaces) = maxAttempts
  /\ CallFailedWith("Job timed out")

\* The message of the error that the answer to the request r, the last of
\* a URL of the batch, makes screenshotSync throw.
ScreenshotError(r) ==
  IF r.kind = "run"
  THEN IF r.answer.status = 408 THEN "API error: 408" ELSE "API error: 500: <html>"
  ELSE IF r.kind = "status"
  THEN IF r.answer.body.t # "json" THEN JsonSyntaxError
       ELSE IF r.answer.body.json.status = "failed"
       THEN JobFailedMessage(r.answer.body.json)
       ELSE "Job timed out"
  ELSE IF r.kind = "artifacts"
  THEN IF r.answer.body.t # "json" THEN JsonSyntaxError
       ELSE "No screenshot artifact found"
  ELSE IF r.answer.outcome = "http_error" THEN "Download failed: 404"
  ELSE "fetch failed"

BatchEntryIsRight(e, n) ==
  /\ e.url = params.urls[n]
  /\ reqs[n].kind \in {"run", "status", "artifacts", "download"}
  /\ e.success <=> IsImageAnswer(reqs[n])
  /\ e.success => IsTmpPath(e.screenshot) /\ e.error = ""
  /\ ~e.success => e.screenshot = <<>> /\ e.error = ScreenshotError(reqs[n])

\* C39: riddle_batch_screenshot has pushed one entry for every URL it is
\* through with, in the order of urls, and answers, without an error, with
\* one entry for every URL of urls: the entry of a URL has success true and
\* the path of the file when the URL's image was obtained, and otherwise
\* success false and the message of the error (API error, job failure,
\* timeout, missing artifact, failed download), and the URLs after it are
\* processed all the same.
BatchAnswersEveryUrl ==
  tool = "riddle_batch_screenshot" =>
    /\ Len(local.results) = local.u - 1
    /\ local.u <= Len(params.urls) + 1
    /\ \A n \in 1..Len(local.results) : BatchEntryIsRight(local.results[n], n)
    /\ pc = "done" =>
         /\ ~out.isError
         /\ out.text.t = "batch"
         /\ out.text.results = local.results
         /\ Len(out.text.results) = Len(params.urls)

\* The job of the first URL failed, and the screenshot of the second was
\* taken and saved.
SecondUrlDoneAfterFirstFailed ==
  /\ McpDone
  /\ tool = "riddle_batch_screenshot"
  /\ Len(params.urls) = 2
  /\ Len(out.text.results) = 2
  /\ out.text.results[1] = BatchResult(UrlA, FALSE, <<>>, "Job failed: boom")
  /\ out.text.results[2].url = UrlB
  /\ out.text.results[2].success
  /\ Len(files) = 1

\* Whether the answer to the request r, the last of a call of
\* riddle_automate or riddle_click_and_screenshot, makes runScriptSync
\* throw, and the message of the error.
ScriptFailed(r) ==
  \/ r.kind \in {"run", "status"}
  \/ r.kind = "artifacts" /\ r.answer.body.t # "json"
  \/ r.kind = "download" /\ r.answer.outcome # "ok"

ScriptError(r) ==
  IF r.kind = "run"
  THEN IF r.answer.status \notin 200..299 THEN "API error 500: <html>"
       ELSE IF r.answer.body.t # "json" THEN JsonSyntaxError
       ELSE "No job_id returned"
  ELSE ScreenshotError(r)

LastRequest == reqs[Len(reqs)]

\* The handler has not raised, and the call of a tool other than
\* riddle_batch_screenshot has ended in the response of the catch when an
\* error was thrown (a tool name that is not known, or the error of
\* screenshotSync or runScriptSync) and in another response when none was.
ErrorsOutsideBatchAnswered ==
  /\ pc \in {"start", "mcp_post", "mcp_job", "mcp_artifacts", "mcp_download", "done"}
  /\ McpDone =>
       /\ out.isError => out.text.t = "text"
       /\ tool \notin ImageTools => CallFailedWith("Unknown tool: " \o tool)
       /\ tool = "riddle_screenshot" =>
            IF IsImageAnswer(LastRequest) THEN ~out.isError
            ELSE CallFailedWith(ScreenshotError(LastRequest))
       /\ tool \in {"riddle_automate", "riddle_click_and_screenshot"} =>
            IF ScriptFailed(LastRequest) THEN CallFailedWith(ScriptError(LastRequest))
            ELSE ~out.isError

\* The URLs of a batch for which screenshotSync threw.
FailedUrls ==
  IF tool = "riddle_batch_screenshot"
  THEN {n \in 1..Len(reqs) : ~IsImageAnswer(reqs[n])}
  ELSE {}

\* C40 as stated: the handler never raises, and every error thrown while
\* a tool call is handled, the errors that screenshotSync throws for a URL
\* of riddle_batch_screenshot among them, is answered with isError true and
\* the text "Error: " followed by its message.
EveryErrorIsAnErrorResponse ==
  /\ ErrorsOutsideBatchAnswered
  /\ McpDone =>
       \A n \in FailedUrls : CallFailedWith(ScreenshotError(reqs[n]))

\* C40, amended: the handler never raises; every error thrown while a
\* tool call is handled is answered with isError true and the text
\* "Error: " followed by its message, but for the errors that
\* screenshotSync throws for a URL of riddle_batch_screenshot: these are
\* caught for the URL, and the response, which is not an error, carries
\* the message in the URL's entry.
HandlerNeverRaises ==
  /\ ErrorsOutsideBatchAnswered
  /\ McpDone =>
       \A n \in FailedUrls :
         /\ ~out.isError
         /\ out.text.results[n].error = ScreenshotError(reqs[n])

\* riddle_batch_screenshot answered, without isError, for a URL whose API
\* call was refused.
BatchErrorIsNotAnErrorResponse ==
  /\ McpDone
  /\ tool = "riddle_batch_screenshot"
  /\ FailedUrls = {1}
  /\ reqs[1].kind = "run"
  /\ reqs[1].answer.status = 500
  /\ out = McpResponse(FALSE, [t |-> "batch",
                               results |-> << BatchResult(UrlA, FALSE, <<>>,
                                                          "API error: 500: <html>") >>])

\* riddle_click_and_screenshot answered with the error of an API call that
\* was refused.
ApiErrorAnswered ==
  /\ McpDone
  /\ tool = "riddle_click_and_screenshot"
  /\ Len(reqs) = 1
  /\ LastRequest.answer.status = 500
  /\ out = McpResponse(TRUE, [t |-> "text", text |-> "Error: API error 500: <html>"])
====
